---- MODULE Spec2Model ----
(***************************************************************************)
(* The numeric and address normalisation layer of the Starknet MCP server  *)
(* (src/core/services/utils.ts, clients.ts, balance.ts, tokens.ts and the  *)
(* transfer service), as a state machine whose actions are calls of its    *)
(* functions.                                                              *)
(*                                                                         *)
(* Strings are sequences of one-character strings, so that every           *)
(* formatting and parsing step is computed digit by digit as the code      *)
(* does.  The functions of the starknet.js library that the code calls     *)
(* (uint256.bnToUint256, uint256.uint256ToBN, validateAndParseAddress) are *)
(* modelled as starknet.js 6.x defines them; each is named at the call     *)
(* site it stands for.                                                     *)
(*                                                                         *)
(* TLC's integers are 32 bits wide.  The ledger's 128-bit word is scaled   *)
(* to WordBits bits and the 64-digit address to AddrHexLen hex digits; all *)
(* arithmetic is otherwise the code's.                                     *)
(***************************************************************************)
EXTENDS Integers, Sequences, FiniteSets, TLC

VARIABLES op, arg, res, chain, providerCache, navigatorCache, constructed, tasks

vars == <<op, arg, res, chain, providerCache, navigatorCache, constructed, tasks>>

\* The handle caches, the count of handles built and the operations in flight.
handleVars == <<providerCache, navigatorCache, constructed, tasks>>

(***************************************************************************)
(* Bounds of the model.                                                    *)
(***************************************************************************)
\* Width of one word of a double-word integer (128 in the source).
WordBits == 4
\* How far past the double-word domain, on both sides, the inputs reach.
ValueSlack == 3
\* Largest decimal count tried (18 for ETH and STRK).
MaxDecimals == 3
\* Raw amounts 0..MaxRaw are formatted.
MaxRaw == 130
\* Longest amount string handed to parseTokenAmount.
MaxAmountLen == 4
\* Hex digits of a canonical address (64 in the library).
AddrHexLen == 3
\* Longest address string handed to parseStarknetAddress.
MaxAddrLen == 4

(***************************************************************************)
(* JavaScript string primitives.                                           *)
(***************************************************************************)
DecDigits == <<"0", "1", "2", "3", "4", "5", "6", "7", "8", "9">>

HexDigits == <<"0", "1", "2", "3", "4", "5", "6", "7", "8", "9",
               "a", "b", "c", "d", "e", "f">>

HexUpper == <<"0", "1", "2", "3", "4", "5", "6", "7", "8", "9",
              "A", "B", "C", "D", "E", "F">>

IsDecDigit(c) == \E i \in 1..10 : DecDigits[i] = c

IsHexDigit(c) == \E i \in 1..16 : HexDigits[i] = c \/ HexUpper[i] = c

\* The value of one digit character (decimal or hexadecimal, either case).
DigitVal(c) == (CHOOSE i \in 1..16 : HexDigits[i] = c \/ HexUpper[i] = c) - 1

Max(a, b) == IF a >= b THEN a ELSE b

Min(a, b) == IF a <= b THEN a ELSE b

\* Number.prototype.toString(radix) / BigInt.prototype.toString(radix) of n >= 0.
RECURSIVE NatToString(_, _)
NatToString(n, radix) ==
  IF n < radix THEN <<HexDigits[n + 1]>>
  ELSE NatToString(n \div radix, radix) \o <<HexDigits[(n % radix) + 1]>>

\* BigInt.prototype.toString(radix): a negative value prints as "-" and its magnitude.
ToStringRadix(n, radix) ==
  IF n < 0 THEN <<"-">> \o NatToString(0 - n, radix) ELSE NatToString(n, radix)

\* String.prototype.startsWith
StartsWith(s, p) == Len(s) >= Len(p) /\ SubSeq(s, 1, Len(p)) = p

\* String.prototype.endsWith
EndsWith(s, p) == Len(s) >= Len(p) /\ SubSeq(s, Len(s) - Len(p) + 1, Len(s)) = p

\* String.prototype.includes for a one-character needle
Includes(s, c) == \E i \in 1..Len(s) : s[i] = c

\* String.prototype.padStart(n, c)
RECURSIVE PadStart(_, _, _)
PadStart(s, n, c) == IF Len(s) >= n THEN s ELSE PadStart(<<c>> \o s, n, c)

\* String.prototype.padEnd(n, c)
RECURSIVE PadEnd(_, _, _)
PadEnd(s, n, c) == IF Len(s) >= n THEN s ELSE PadEnd(s \o <<c>>, n, c)

\* A relative index of String.prototype.slice, clamped to 0..Len(s).
SliceIndex(s, i) == IF i < 0 THEN Max(Len(s) + i, 0) ELSE Min(i, Len(s))

\* String.prototype.slice(b, e)
Slice(s, b, e) == SubSeq(s, SliceIndex(s, b) + 1, SliceIndex(s, e))

\* String.prototype.slice(b)
SliceFrom(s, b) == SubSeq(s, SliceIndex(s, b) + 1, Len(s))

\* String.prototype.split(c) for a one-character separator: the groups between
\* the separators, in order.
RECURSIVE Split(_, _)
Split(s, c) ==
  IF ~Includes(s, c) THEN <<s>>
  ELSE LET i == CHOOSE k \in 1..Len(s) : s[k] = c /\ \A j \in 1..(k - 1) : s[j] # c
       IN <<SubSeq(s, 1, i - 1)>> \o Split(SubSeq(s, i + 1, Len(s)), c)

\* String.prototype.replace(/^0+/, '')
RECURSIVE StripLeadingZeros(_)
StripLeadingZeros(s) ==
  IF s # <<>> /\ Head(s) = "0" THEN StripLeadingZeros(Tail(s)) ELSE s

\* The value of a non-empty digit string in the given radix.
RECURSIVE DigitsValue(_, _)
DigitsValue(s, radix) ==
  IF s = <<>> THEN 0
  ELSE DigitsValue(SubSeq(s, 1, Len(s) - 1), radix) * radix + DigitVal(s[Len(s)])

AllDec(s) == \A i \in 1..Len(s) : IsDecDigit(s[i])

AllHex(s) == \A i \in 1..Len(s) : IsHexDigit(s[i])

\* BigInt(string), ECMAScript StringToBigInt: the empty string is 0, an optional
\* sign is allowed before decimal digits only, 0x/0X starts a hexadecimal
\* literal, and anything else is a SyntaxError.
BigIntOfString(s) ==
  IF s = <<>> THEN [ok |-> TRUE, value |-> 0]
  ELSE IF Len(s) >= 3 /\ s[1] = "0" /\ s[2] \in {"x", "X"} /\ AllHex(SliceFrom(s, 2))
    THEN [ok |-> TRUE, value |-> DigitsValue(SliceFrom(s, 2), 16)]
  ELSE IF AllDec(s) THEN [ok |-> TRUE, value |-> DigitsValue(s, 10)]
  ELSE IF Len(s) >= 2 /\ s[1] = "-" /\ AllDec(Tail(s))
    THEN [ok |-> TRUE, value |-> 0 - DigitsValue(Tail(s), 10)]
  ELSE IF Len(s) >= 2 /\ s[1] = "+" /\ AllDec(Tail(s))
    THEN [ok |-> TRUE, value |-> DigitsValue(Tail(s), 10)]
  ELSE [ok |-> FALSE, value |-> 0]

(***************************************************************************)
(* Double-word integers (utils.ts).                                        *)
(***************************************************************************)
\* 2^128 in the source: one more than the mask 0xffffffffffffffffffffffffffffffff.
WordModulus == 2 ^ WordBits

\* 2^256 in the source.
DoubleModulus == WordModulus * WordModulus

\* '0x' + value.toString(16)
HexString(n) == <<"0", "x">> \o ToStringRadix(n, 16)

\* starknet.js uint256.bnToUint256: rejects a value outside 0 .. 2^256 - 1,
\* else the low and high words as 0x-prefixed hex strings.
bnToUint256(value) ==
  IF value < 0 \/ value > DoubleModulus - 1
  THEN [ok |-> FALSE, err |-> "Error", low |-> <<>>, high |-> <<>>]
  ELSE [ok |-> TRUE, err |-> "", low |-> HexString(value % WordModulus),
        high |-> HexString(value \div WordModulus)]

\* splitUint256 with the two words of the library's result exchanged.
splitUint256_swapped(value) ==
  LET result == bnToUint256(value)
  IN IF result.ok
     THEN [ok |-> TRUE, err |-> "", low |-> result.high, high |-> result.low]
     ELSE [ok |-> TRUE, err |-> "",
           low |-> HexString(value % WordModulus),
           high |-> HexString((value \div WordModulus) % WordModulus)]

\* utils.splitUint256: the library's result, or on its failure the manual
\* calculation with both words masked.
splitUint256(value) ==
  LET result == bnToUint256(value)
  IN IF result.ok
     THEN [ok |-> TRUE, err |-> "", low |-> result.low, high |-> result.high]
     ELSE [ok |-> TRUE, err |-> "",
           low |-> HexString(value % WordModulus),
           high |-> HexString((value \div WordModulus) % WordModulus)]

\* utils.bigintToUint256: the library's result; its failure propagates.
bigintToUint256(value) == bnToUint256(value)

\* starknet.js uint256.uint256ToBN: BigInt of both words, each validated to lie
\* in 0 .. 2^128 - 1, then (high << 128) + low.
uint256ToBN(low, high) ==
  LET l == BigIntOfString(low)
      h == BigIntOfString(high)
  IN IF ~l.ok \/ ~h.ok THEN [ok |-> FALSE, err |-> "SyntaxError", value |-> 0]
     ELSE IF l.value < 0 \/ l.value > WordModulus - 1
            \/ h.value < 0 \/ h.value > WordModulus - 1
       THEN [ok |-> FALSE, err |-> "Error", value |-> 0]
     ELSE [ok |-> TRUE, err |-> "", value |-> h.value * WordModulus + l.value]

\* utils.combineUint256: the library's result, or on its failure the manual
\* calculation BigInt(low) + (BigInt(high) << 128), which throws only when a
\* word is no integer literal.
combineUint256(low, high) ==
  LET result == uint256ToBN(low, high)
      lowBigInt == BigIntOfString(low)
      highBigInt == BigIntOfString(high)
  IN IF result.ok THEN result
     ELSE IF ~lowBigInt.ok \/ ~highBigInt.ok
       THEN [ok |-> FALSE, err |-> "SyntaxError", value |-> 0]
     ELSE [ok |-> TRUE, err |-> "",
           value |-> lowBigInt.value + highBigInt.value * WordModulus]

\* utils.uint256ToBigint: the library's result for the object or the two-element
\* array; its failure propagates.
uint256ToBigint(low, high) == uint256ToBN(low, high)

(***************************************************************************)
(* Scaled amounts (balance.ts, tokens.ts, the older balance service and    *)
(* the transfer service).                                                  *)
(***************************************************************************)
\* formatAmount with the fractional part sliced from index `decimals` instead
\* of from `decimals` before the end.
formatAmount_sliceFromStart(amount, decimals) ==
  IF decimals = 0 THEN ToStringRadix(amount, 10)
  ELSE LET amountStr == PadStart(ToStringRadix(amount, 10), decimals + 1, "0")
           sliced == Slice(amountStr, 0, 0 - decimals)
           integerPart == IF sliced = <<>> THEN <<"0">> ELSE sliced
           fractionalPart == SliceFrom(amountStr, decimals)
       IN integerPart \o <<".">> \o fractionalPart

\* formatAmount of services/balance.ts
formatAmount(amount, decimals) ==
  IF decimals = 0 THEN ToStringRadix(amount, 10)
  ELSE LET amountStr == PadStart(ToStringRadix(amount, 10), decimals + 1, "0")
           sliced == Slice(amountStr, 0, 0 - decimals)
           integerPart == IF sliced = <<>> THEN <<"0">> ELSE sliced
           fractionalPart == SliceFrom(amountStr, 0 - decimals)
       IN integerPart \o <<".">> \o fractionalPart

\* formatTokenAmount of services/tokens.ts
formatTokenAmount(amount, decimals) ==
  IF decimals = 0 THEN ToStringRadix(amount, 10)
  ELSE LET amountStr == PadStart(ToStringRadix(amount, 10), decimals + 1, "0")
           sliced == Slice(amountStr, 0, 0 - decimals)
           integerPart == IF sliced = <<>> THEN <<"0">> ELSE sliced
           fractionalPart == SliceFrom(amountStr, 0 - decimals)
       IN integerPart \o <<".">> \o fractionalPart

\* formatAmount without the padStart: a raw amount shorter than `decimals`
\* keeps its own digits as the fraction.
formatAmount_unpadded(amount, decimals) ==
  IF decimals = 0 THEN ToStringRadix(amount, 10)
  ELSE LET amountStr == ToStringRadix(amount, 10)
           sliced == Slice(amountStr, 0, 0 - decimals)
           integerPart == IF sliced = <<>> THEN <<"0">> ELSE sliced
           fractionalPart == SliceFrom(amountStr, 0 - decimals)
       IN integerPart \o <<".">> \o fractionalPart

\* formatAmount of the older balance service (its getTokenBalance uses it)
formatAmount_getTokenBalance(amount, decimals) ==
  IF decimals = 0 THEN ToStringRadix(amount, 10)
  ELSE LET amountStr == PadStart(ToStringRadix(amount, 10), decimals + 1, "0")
           sliced == Slice(amountStr, 0, 0 - decimals)
           integerPart == IF sliced = <<>> THEN <<"0">> ELSE sliced
           fractionalPart == SliceFrom(amountStr, 0 - decimals)
       IN integerPart \o <<".">> \o fractionalPart

\* parseTokenAmount that cuts a fractional part longer than `decimals` down to
\* `decimals` digits instead of rejecting it.
parseTokenAmount_truncating(amountStr, decimals) ==
  IF Includes(amountStr, ".")
  THEN LET parts == Split(amountStr, ".")
           integerPart == parts[1]
           fractionalPart == IF Len(parts) >= 2 THEN parts[2] ELSE <<>>
           paddedFractionalPart == PadEnd(Slice(fractionalPart, 0, decimals), decimals, "0")
           combinedAmount == integerPart \o paddedFractionalPart
           stripped == StripLeadingZeros(combinedAmount)
           parsed == BigIntOfString(IF stripped = <<>> THEN <<"0">> ELSE stripped)
       IN IF parsed.ok
          THEN [ok |-> TRUE, err |-> "", max |-> decimals, value |-> parsed.value]
          ELSE [ok |-> FALSE, err |-> "SyntaxError", max |-> decimals, value |-> 0]
  ELSE LET parsed == BigIntOfString(amountStr)
       IN IF parsed.ok
          THEN [ok |-> TRUE, err |-> "", max |-> decimals,
                value |-> parsed.value * (10 ^ decimals)]
          ELSE [ok |-> FALSE, err |-> "SyntaxError", max |-> decimals, value |-> 0]

\* parseTokenAmount of the transfer service, for a string amount.  split('.')
\* is destructured into its first two groups; later groups are dropped.
parseTokenAmount(amountStr, decimals) ==
  IF Includes(amountStr, ".")
  THEN LET parts == Split(amountStr, ".")
           integerPart == parts[1]
           fractionalPart == IF Len(parts) >= 2 THEN parts[2] ELSE <<>>
       IN IF Len(fractionalPart) > decimals
          THEN [ok |-> FALSE, err |-> "TooManyDecimalPlaces", max |-> decimals,
                value |-> 0]
          ELSE LET paddedFractionalPart == PadEnd(fractionalPart, decimals, "0")
                   combinedAmount == integerPart \o paddedFractionalPart
                   stripped == StripLeadingZeros(combinedAmount)
                   parsed == BigIntOfString(IF stripped = <<>> THEN <<"0">> ELSE stripped)
               IN IF parsed.ok
                  THEN [ok |-> TRUE, err |-> "", max |-> decimals, value |-> parsed.value]
                  ELSE [ok |-> FALSE, err |-> "SyntaxError", max |-> decimals,
                        value |-> 0]
  ELSE LET parsed == BigIntOfString(amountStr)
       IN IF parsed.ok
          THEN [ok |-> TRUE, err |-> "", max |-> decimals,
                value |-> parsed.value * (10 ^ decimals)]
          ELSE [ok |-> FALSE, err |-> "SyntaxError", max |-> decimals, value |-> 0]

\* parseTokenAmount for a bigint amount: taken as token units already.
parseTokenAmountBigint(amount, decimals) ==
  [ok |-> TRUE, err |-> "", max |-> decimals, value |-> amount]

(***************************************************************************)
(* Addresses (clients.ts).                                                 *)
(***************************************************************************)
\* MAX_STORAGE_ITEM_SIZE of the library (256), scaled with the address.
MaxStorageItemSize == 2

\* ADDR_BOUND of the library: 2^251 - MAX_STORAGE_ITEM_SIZE, five bits short of
\* the full width of the canonical address.
AddrBound == 2 ^ (4 * AddrHexLen - 5) - MaxStorageItemSize

\* starknet.js removeHexPrefix: hex.replace(/^0x/i, '')
removeHexPrefix(hex) ==
  IF Len(hex) >= 2 /\ hex[1] = "0" /\ hex[2] \in {"x", "X"} THEN SliceFrom(hex, 2)
  ELSE hex

\* starknet.js addHexPrefix: `0x${removeHexPrefix(hex)}`
addHexPrefix(hex) == <<"0", "x">> \o removeHexPrefix(hex)

\* starknet.js num.toHex of a string: BigInt(value) printed in base 16 with the
\* prefix; a string that is no integer literal throws.
toHex(value) ==
  LET parsed == BigIntOfString(value)
  IN IF parsed.ok
     THEN [ok |-> TRUE, value |-> addHexPrefix(ToStringRadix(parsed.value, 16))]
     ELSE [ok |-> FALSE, value |-> <<>>]

\* starknet.js addAddressPadding: the prefix is added when missing, the value is
\* printed in lower-case hex and left-padded with zeros to the full width.
addAddressPadding(address) ==
  LET hex == toHex(addHexPrefix(address))
  IN IF hex.ok
     THEN [ok |-> TRUE,
           value |-> addHexPrefix(PadStart(removeHexPrefix(hex.value), AddrHexLen, "0"))]
     ELSE hex

\* starknet.js validateAndParseAddress: the padded address must match
\* /^(0x)?[0-9a-fA-F]{64}$/ and lie in 0 .. ADDR_BOUND - 1.
validateAndParseAddress(address) ==
  LET result == addAddressPadding(address)
  IN IF ~result.ok THEN [ok |-> FALSE, err |-> "SyntaxError", value |-> <<>>]
     ELSE LET digits == removeHexPrefix(result.value)
          IN IF ~(Len(digits) = AddrHexLen /\ AllHex(digits))
             THEN [ok |-> FALSE, err |-> "InvalidAddressFormat", value |-> <<>>]
             ELSE IF DigitsValue(digits, 16) > AddrBound - 1
               THEN [ok |-> FALSE, err |-> "AssertionError", value |-> <<>>]
             ELSE [ok |-> TRUE, err |-> "", value |-> result.value]

\* parseStarknetAddress that adds the 0x prefix before the first call, whether
\* or not the address has one.
parseStarknetAddress_alwaysPrefix(address) ==
  LET parsed == validateAndParseAddress(<<"0", "x">> \o address)
  IN IF parsed.ok
     THEN [ok |-> TRUE, err |-> "", value |-> parsed.value, retries |-> 0]
     ELSE [ok |-> FALSE, err |-> "InvalidStarknetAddress", value |-> <<>>,
           retries |-> 0]

\* parseStarknetAddress without the catch block: the library's error reaches
\* the caller as it is.
parseStarknetAddress_unwrapped(address) ==
  LET parsed == validateAndParseAddress(address)
  IN [ok |-> parsed.ok, err |-> parsed.err, value |-> parsed.value, retries |-> 0]

\* parseStarknetAddress: the library's result; on its failure one more call with
\* the 0x prefix added when it is missing, else the invalid-address error.
\* retries counts the recursive calls made.
RECURSIVE parseStarknetAddress(_)
parseStarknetAddress(address) ==
  LET parsed == validateAndParseAddress(address)
  IN IF parsed.ok
     THEN [ok |-> TRUE, err |-> "", value |-> parsed.value, retries |-> 0]
     ELSE IF ~StartsWith(address, <<"0", "x">>)
       THEN LET again == parseStarknetAddress(<<"0", "x">> \o address)
            IN [again EXCEPT !.retries = @ + 1]
     ELSE [ok |-> FALSE, err |-> "InvalidStarknetAddress", value |-> <<>>,
           retries |-> 0]

(***************************************************************************)
(* Networks (chains.ts) and the cached handles (clients.ts,                *)
(* starknetid.ts).  Texts that the code only passes on (URLs, chain ids,   *)
(* the fixed parts of messages) are kept whole; a message is the sequence  *)
(* of its fixed parts and of the values put into it.                      *)
(***************************************************************************)
UpperLetters == <<"A", "B", "C", "D", "E", "F", "G", "H", "I", "J", "K", "L", "M",
                  "N", "O", "P", "Q", "R", "S", "T", "U", "V", "W", "X", "Y", "Z">>

LowerLetters == <<"a", "b", "c", "d", "e", "f", "g", "h", "i", "j", "k", "l", "m",
                  "n", "o", "p", "q", "r", "s", "t", "u", "v", "w", "x", "y", "z">>

\* String.prototype.toLowerCase
toLowerCase(s) ==
  [i \in 1..Len(s) |->
     IF \E k \in 1..26 : UpperLetters[k] = s[i]
     THEN LowerLetters[CHOOSE k \in 1..26 : UpperLetters[k] = s[i]]
     ELSE s[i]]

\* A fixed part of a message and a value put into a message.
Lit(text) == [fixed |-> TRUE, text |-> text]

Val(value) == [fixed |-> FALSE, text |-> value]

\* new Error(message)
NewError(message) == [name |-> "Error", message |-> message]

\* An argument the caller left out.
Undefined == <<"undefined">>

\* A default parameter: the default replaces an argument left out.
OrDefault(x, d) == IF x = Undefined THEN d ELSE x

MainnetName == <<"m", "a", "i", "n", "n", "e", "t">>

SepoliaName == <<"s", "e", "p", "o", "l", "i", "a">>

DEFAULT_NETWORK == MainnetName

\* The table of supported networks.
networks ==
  [n \in {MainnetName, SepoliaName} |->
     IF n = MainnetName
     THEN [name |-> MainnetName, chainId |-> "SN_MAIN",
           rpcUrl |-> "https://starknet-mainnet.public.blastapi.io"]
     ELSE [name |-> SepoliaName, chainId |-> "SN_SEPOLIA",
           rpcUrl |-> "https://starknet-sepolia.public.blastapi.io"]]

\* Object.keys(networks), in the order of the literal.
NetworkKeys == <<MainnetName, SepoliaName>>

\* The table is an object literal: a property read on it also finds what every
\* object inherits.  These are the inherited properties with a lower-case name;
\* each is an object or a function, not a NetworkConfig, and none is falsy.
InheritedLowerCaseKeys ==
  {<<"c", "o", "n", "s", "t", "r", "u", "c", "t", "o", "r">>,
   <<"_", "_", "p", "r", "o", "t", "o", "_", "_">>}

\* Array.prototype.join
RECURSIVE Join(_, _)
Join(list, separator) ==
  IF list = <<>> THEN <<>>
  ELSE IF Len(list) = 1 THEN list[1]
  ELSE list[1] \o separator \o Join(Tail(list), separator)

\* networks[key]: an own entry, an inherited property, or undefined.
networksLookup(key) ==
  IF key \in DOMAIN networks THEN [found |-> "own", value |-> networks[key]]
  ELSE IF key \in InheritedLowerCaseKeys
    THEN [found |-> "inherited", value |-> [inherited |-> key]]
  ELSE [found |-> "undefined", value |-> Undefined]

\* getNetwork: the entry of the lower-cased name, mainnet when the name is left
\* out; an error that lists the keys when the read yields nothing.
getNetwork(networkName) ==
  LET name == OrDefault(networkName, DEFAULT_NETWORK)
      entry(network) ==
        IF network.found = "undefined"
        THEN [ok |-> FALSE, value |-> Undefined,
              err |-> NewError(<<Lit("Network "), Val(name),
                                 Lit(" not supported. Available networks: "),
                                 Val(Join(NetworkKeys, <<",", " ">>))>>)]
        ELSE [ok |-> TRUE, value |-> network.value, err |-> Undefined]
  IN entry(networksLookup(toLowerCase(name)))

\* getRpcUrl: getNetwork(networkName).rpcUrl; an inherited property has none.
getRpcUrl(networkName) ==
  LET rpcUrl(network) ==
        IF ~network.ok THEN network
        ELSE IF "rpcUrl" \in DOMAIN network.value
          THEN [ok |-> TRUE, value |-> network.value.rpcUrl, err |-> Undefined]
        ELSE [ok |-> TRUE, value |-> Undefined, err |-> Undefined]
  IN rpcUrl(getNetwork(networkName))

\* getSupportedNetworks: Object.keys(networks)
getSupportedNetworks == NetworkKeys

\* CHAIN_IDS of clients.ts, an object literal like the table of networks.
CHAIN_IDS ==
  [n \in {MainnetName, SepoliaName} |->
     IF n = MainnetName THEN "SN_MAIN" ELSE "SN_SEPOLIA"]

\* CHAIN_IDS[network] || CHAIN_IDS.mainnet
chainIdOrMainnet(network) ==
  IF network \in DOMAIN CHAIN_IDS THEN CHAIN_IDS[network]
  ELSE IF network \in InheritedLowerCaseKeys THEN [inherited |-> network]
  ELSE CHAIN_IDS[MainnetName]

\* No handle: what a read of a cache gives for a key it does not hold.
NoHandle == [class |-> "undefined"]

\* Map.set
MapSet(map, key, value) ==
  [k \in DOMAIN map \cup {key} |-> IF k = key THEN value ELSE map[k]]

\* The number of handles of a class built so far for a key.
Built(built, class, key) ==
  IF <<class, key>> \in DOMAIN built THEN built[<<class, key>>] ELSE 0

\* new RpcProvider(...) and new StarknetIdNavigator(...): the handle carries the
\* serial number of its construction, so that two handles built for one key
\* are two handles.
NewHandle(built, class, key, fields) ==
  [class |-> class, key |-> key, fields |-> fields,
   serial |-> Built(built, class, key) + 1]

CountBuilt(built, class, key) ==
  MapSet(built, <<class, key>>, Built(built, class, key) + 1)

\* getProvider that reads the cache without building what is missing.
getProvider_readOnly(cache, built, networkArg) ==
  LET network == OrDefault(networkArg, MainnetName)
  IN [ok |-> TRUE,
      value |-> IF network \in DOMAIN cache THEN cache[network] ELSE NoHandle,
      err |-> Undefined, providerCache |-> cache, constructed |-> built]

\* getProvider: the cached provider of the key, else a provider built from the
\* RPC URL and the chain id of the network, cached and returned.  The result
\* carries the cache and the count of handles as the call leaves them.
getProvider(cache, built, networkArg) ==
  LET network == OrDefault(networkArg, MainnetName)
      cacheKey == network
      cached(provider) ==
        [ok |-> TRUE, value |-> provider, err |-> Undefined,
         providerCache |-> MapSet(cache, cacheKey, provider),
         constructed |-> CountBuilt(built, "RpcProvider", cacheKey)]
      build(rpcUrl) ==
        IF ~rpcUrl.ok
        THEN [ok |-> FALSE, value |-> Undefined, err |-> rpcUrl.err,
              providerCache |-> cache, constructed |-> built]
        ELSE cached(NewHandle(built, "RpcProvider", cacheKey,
                              [nodeUrl |-> rpcUrl.value,
                               chainId |-> chainIdOrMainnet(network)]))
  IN IF cacheKey \in DOMAIN cache
     THEN [ok |-> TRUE, value |-> cache[cacheKey], err |-> Undefined,
           providerCache |-> cache, constructed |-> built]
     ELSE build(getRpcUrl(network))

\* getStarknetIdNavigator: the cached navigator of the key, else a navigator
\* built on getProvider(network) with the chain id of mainnet or sepolia,
\* cached and returned.
getStarknetIdNavigator(providers, navigators, built, networkArg) ==
  LET network == OrDefault(networkArg, MainnetName)
      cacheKey == network
      chainId == IF network = MainnetName THEN "SN_MAIN"
                 ELSE IF network = SepoliaName THEN "SN_SEPOLIA"
                 ELSE "SN_MAIN"
      cached(provider, navigator) ==
        [ok |-> TRUE, value |-> navigator, err |-> Undefined,
         providerCache |-> provider.providerCache,
         navigatorCache |-> MapSet(navigators, cacheKey, navigator),
         constructed |-> CountBuilt(provider.constructed,
                                    "StarknetIdNavigator", cacheKey)]
      build(provider) ==
        IF ~provider.ok
        THEN [ok |-> FALSE, value |-> Undefined, err |-> provider.err,
              providerCache |-> providers, navigatorCache |-> navigators,
              constructed |-> built]
        ELSE cached(provider,
                    NewHandle(provider.constructed, "StarknetIdNavigator",
                              cacheKey,
                              [provider |-> provider.value, chainId |-> chainId]))
  IN IF cacheKey \in DOMAIN navigators
     THEN [ok |-> TRUE, value |-> navigators[cacheKey], err |-> Undefined,
           providerCache |-> providers, navigatorCache |-> navigators,
           constructed |-> built]
     ELSE build(getProvider(providers, built, network))

(***************************************************************************)
(* Names and their resolution (utils.ts, starknetid.ts).  The directory    *)
(* of names is a remote contract read through the starknetid.js library;   *)
(* what it answers is an input of the call.                                *)
(***************************************************************************)
StarkSuffix == <<".", "s", "t", "a", "r", "k">>

\* [a-z0-9-]
IsDomainChar(c) ==
  \/ \E k \in 1..26 : LowerLetters[k] = c
  \/ IsDecDigit(c)
  \/ c = "-"

AllDomainChars(s) == \A i \in 1..Len(s) : IsDomainChar(s[i])

\* The longest label that starknetid.js takes at the root of a name, and the
\* longest it takes below the root.
StarkRootLabelMax == 48

StarkSubLabelMax == 97

\* starknetid.js utils.isStarkDomain:
\* /^(?:[a-z0-9-]{1,48}(?:[a-z0-9-]{1,48}[a-z0-9-])?\.)*[a-z0-9-]{1,48}\.stark$/
isStarkDomain(domain) ==
  LET labels == Split(domain, ".")
      n == Len(labels)
  IN /\ n >= 2
     /\ labels[n] = SliceFrom(StarkSuffix, 1)
     /\ \A i \in 1..(n - 1) :
          /\ labels[i] # <<>>
          /\ AllDomainChars(labels[i])
          /\ Len(labels[i]) <= (IF i = n - 1 THEN StarkRootLabelMax
                                ELSE StarkSubLabelMax)

\* isValidStarknetDomain as it is now: the library's test.
isValidStarknetDomain(domain) == isStarkDomain(domain)

\* The longest base of a name that the earlier isValidStarknetDomain takes.
MaxBaseDomainLength == 31

\* isValidStarknetDomain as it was before the library was used: the base, with
\* a .stark at the end cut off, is 1 to 31 characters of a-z, 0-9 and '-'.
isValidStarknetDomain_earlier(domain) ==
  LET baseDomain == IF EndsWith(domain, StarkSuffix) THEN Slice(domain, 0, 0 - 6)
                    ELSE domain
  IN /\ baseDomain # <<>> /\ AllDomainChars(baseDomain)
     /\ Len(baseDomain) >= 1
     /\ Len(baseDomain) <= MaxBaseDomainLength

\* isValidAddress that takes only what is written with the 0x prefix.
isValidAddress_prefixedOnly(address) ==
  StartsWith(address, <<"0", "x">>) /\ validateAndParseAddress(address).ok

\* utils.isValidAddress: true when validateAndParseAddress does not throw.
isValidAddress(address) == validateAndParseAddress(address).ok

\* error instanceof Error ? error.message : String(error)
errorMessage(error) == error.message

\* What navigator.getAddressFromStarkName did: it returned a string or threw.
Returned(address) == [threw |-> FALSE, address |-> address]

\* The directory was not asked.
NotAsked == [threw |-> FALSE, address |-> Undefined]

Threw == [threw |-> TRUE,
          error |-> NewError(<<Val(<<"Could not get address from stark name">>)>>)]

\* !address || address === '0x0'
isFalsyOrZeroLiteral(address) == address = <<>> \/ address = <<"0", "x", "0">>

\* The try block of resolveNameOrAddress: the provider of the network, a new
\* navigator on it, and for a stark domain the answer of the directory.
resolveNameOrAddress_try(cache, built, nameOrAddress, network, directory) ==
  LET name == IF EndsWith(nameOrAddress, StarkSuffix) THEN nameOrAddress
              ELSE nameOrAddress \o StarkSuffix
      answer(after) ==
        IF isStarkDomain(nameOrAddress)
        THEN IF directory.threw
             THEN [ok |-> FALSE, value |-> Undefined, err |-> directory.error,
                   name |-> name] @@ after
             ELSE IF isFalsyOrZeroLiteral(directory.address)
               THEN [ok |-> FALSE, value |-> Undefined,
                     err |-> NewError(<<Lit("Could not resolve Starknet ID: "),
                                        Val(name)>>),
                     name |-> name] @@ after
             ELSE [ok |-> TRUE, value |-> directory.address, err |-> Undefined,
                   name |-> name] @@ after
        ELSE [ok |-> FALSE, value |-> Undefined,
              err |-> NewError(<<Lit("Invalid address or unresolvable Starknet ID: "),
                                 Val(nameOrAddress)>>),
              name |-> Undefined] @@ after
      try(provider) ==
        IF ~provider.ok
        THEN [ok |-> FALSE, value |-> Undefined, err |-> provider.err,
              providerCache |-> cache, constructed |-> built,
              navigator |-> NoHandle, name |-> Undefined]
        ELSE answer([providerCache |-> provider.providerCache,
                     constructed |-> CountBuilt(provider.constructed,
                                                "StarknetIdNavigator", network),
                     navigator |-> NewHandle(provider.constructed,
                                             "StarknetIdNavigator", network,
                                             [provider |-> provider.value,
                                              chainId |-> chainIdOrMainnet(network)])])
  IN try(getProvider(cache, built, network))

\* utils.resolveNameOrAddress: a valid address is returned as it was given;
\* anything else goes through the try block, whose error is wrapped.
resolveNameOrAddress(cache, built, nameOrAddress, networkArg, directory) ==
  LET network == OrDefault(networkArg, MainnetName)
      wrapped(tried) ==
        IF tried.ok THEN tried
        ELSE [tried EXCEPT
                !.err = NewError(<<Lit("Error resolving name or address: ")>>
                                   \o errorMessage(tried.err))]
  IN IF isValidAddress(nameOrAddress)
     THEN [ok |-> TRUE, value |-> nameOrAddress, err |-> Undefined,
           providerCache |-> cache, constructed |-> built,
           navigator |-> NoHandle, name |-> Undefined]
     ELSE wrapped(resolveNameOrAddress_try(cache, built, nameOrAddress, network,
                                           directory))

\* starknetid.ts getAddressFromStarkName: the answer of the directory read
\* through the cached navigator of the network, '' for an empty answer; when
\* the navigator or the directory throws, the catch block logs the error and
\* returns ''; caught tells that it ran.
getAddressFromStarkName(providers, navigators, built, name, networkArg, directory) ==
  LET answer(navigator) ==
        [ok |-> TRUE,
         value |-> IF ~navigator.ok \/ directory.threw THEN <<>>
                   ELSE directory.address,
         err |-> Undefined,
         caught |-> ~navigator.ok \/ directory.threw,
         providerCache |-> navigator.providerCache,
         navigatorCache |-> navigator.navigatorCache,
         constructed |-> navigator.constructed,
         navigator |-> IF navigator.ok THEN navigator.value ELSE NoHandle]
  IN answer(getStarknetIdNavigator(providers, navigators, built, networkArg))

(***************************************************************************)
(* Values of contract calls (utils.ts) and the older balance service.      *)
(***************************************************************************)
\* String.fromCharCode for the codes of a-z and 0-9; "?" stands for every
\* other character.
fromCharCode(code) ==
  IF code \in 97..122 THEN LowerLetters[code - 96]
  ELSE IF code \in 48..57 THEN DecDigits[code - 47]
  ELSE "?"

\* str.replace(/.{2}/g, hex => String.fromCharCode(parseInt(hex, 16))): each
\* pair of digits becomes a character, a digit left over stays.
RECURSIVE DecodePairs(_)
DecodePairs(digits) ==
  IF Len(digits) < 2 THEN digits
  ELSE <<fromCharCode(DigitsValue(SubSeq(digits, 1, 2), 16))>>
         \o DecodePairs(SliceFrom(digits, 2))

\* /^0x/i
StartsWithHexPrefix(str) == Len(str) >= 2 /\ str[1] = "0" /\ str[2] \in {"x", "X"}

\* starknet.js shortString.decodeShortString: a hex string is decoded pair by
\* pair, a decimal string after conversion to hex; anything else throws.
decodeShortString(str) ==
  IF StartsWithHexPrefix(str) /\ AllHex(SliceFrom(str, 2))
  THEN [ok |-> TRUE, value |-> DecodePairs(SliceFrom(str, 2))]
  ELSE IF AllDec(str)
    THEN [ok |-> TRUE, value |-> DecodePairs(ToStringRadix(DigitsValue(str, 10), 16))]
  ELSE [ok |-> FALSE, value |-> <<>>]

\* utils.toFelt: num.toHex(value)
toFelt(value) == toHex(value)

\* utils.feltToString: the decoded short string; when decoding throws, the
\* catch block logs the error and returns String(felt).
feltToString(felt) ==
  LET decoded == decodeShortString(felt)
  IN IF decoded.ok THEN [value |-> decoded.value, caught |-> FALSE]
     ELSE [value |-> felt, caught |-> TRUE]

\* utils.formatAddress of a string: the string with 0x before it when it does
\* not start with 0x.
formatAddress(value) ==
  IF StartsWith(value, <<"0", "x">>) THEN value ELSE <<"0", "x">> \o value

\* utils.formatContractValue of a string value: by type a uint256, an address,
\* a decoded short string or a felt; when a conversion throws, a catch block
\* returns the value as a string (the outer one logs the error first).
formatContractValue(value, type) ==
  IF type = "uint256"
  THEN LET parsed == BigIntOfString(value)
           words == bigintToUint256(parsed.value)
       IN IF parsed.ok /\ words.ok
          THEN [ok |-> TRUE, value |-> [low |-> words.low, high |-> words.high],
                caught |-> FALSE]
          ELSE [ok |-> TRUE, value |-> value, caught |-> TRUE]
  ELSE IF type = "address"
    THEN [ok |-> TRUE, value |-> formatAddress(value), caught |-> FALSE]
  ELSE IF type = "string"
    THEN IF (value # <<>> /\ AllDec(value)) \/ StartsWith(value, <<"0", "x">>)
         THEN LET felt == toFelt(value)
              IN IF felt.ok
                 THEN [ok |-> TRUE] @@ feltToString(felt.value)
                 ELSE [ok |-> TRUE, value |-> value, caught |-> TRUE]
         ELSE [ok |-> TRUE, value |-> value, caught |-> FALSE]
  ELSE LET felt == toFelt(value)
       IN IF felt.ok THEN [ok |-> TRUE, value |-> felt.value, caught |-> FALSE]
          ELSE [ok |-> TRUE, value |-> value, caught |-> TRUE]

\* What the node did for a read of a contract: the class was found or not,
\* and the two calls were answered or one of them failed.
NodeAnswered(balance, decimals) ==
  [classFound |-> TRUE, called |-> TRUE, balance |-> balance, decimals |-> decimals]

NodeCallFailed == [classFound |-> TRUE, called |-> FALSE]

NodeClassNotFound == [classFound |-> FALSE, called |-> FALSE]

\* getTokenBalance of the older balance service: provider, the two addresses
\* and the contract are obtained outside the try block, so their errors reach
\* the caller; when a call or the parsing of an answer throws, the catch block
\* logs the error and returns a zero balance with 18 decimals.
getTokenBalance(cache, built, tokenAddress, ownerAddress, networkArg, node) ==
  LET provider == getProvider(cache, built, networkArg)
      formattedTokenAddress == parseStarknetAddress(tokenAddress)
      formattedOwnerAddress == parseStarknetAddress(ownerAddress)
      after == [providerCache |-> provider.providerCache,
                constructed |-> provider.constructed]
      thrown(e) == [ok |-> FALSE, value |-> Undefined, err |-> e,
                    caught |-> FALSE, asked |-> FALSE] @@ after
      \* the address of the call of parseStarknetAddress that threw
      prefixed(a) == IF StartsWith(a, <<"0", "x">>) THEN a ELSE <<"0", "x">> \o a
  IN IF ~provider.ok THEN thrown(provider.err)
     ELSE IF ~formattedTokenAddress.ok
       THEN thrown(NewError(<<Lit("Invalid Starknet address: "),
                              Val(prefixed(tokenAddress))>>))
     ELSE IF ~formattedOwnerAddress.ok
       THEN thrown(NewError(<<Lit("Invalid Starknet address: "),
                              Val(prefixed(ownerAddress))>>))
     ELSE IF ~node.classFound
       THEN [thrown(NewError(<<Val(<<"Contract not found">>)>>)) EXCEPT !.asked = TRUE]
     ELSE LET balance == IF node.called THEN BigIntOfString(node.balance)
                         ELSE [ok |-> FALSE, value |-> 0]
          IN IF node.called /\ balance.ok
             THEN [ok |-> TRUE,
                   value |-> [raw |-> balance.value,
                              formatted |->
                                formatAmount_getTokenBalance(balance.value,
                                                             node.decimals),
                              decimals |-> node.decimals],
                   err |-> Undefined, caught |-> FALSE, asked |-> TRUE] @@ after
             ELSE [ok |-> TRUE,
                   value |-> [raw |-> 0, formatted |-> <<"0", ".", "0">>,
                              decimals |-> 18],
                   err |-> Undefined, caught |-> TRUE, asked |-> TRUE] @@ after

(***************************************************************************)
(* The current balance service (balance.ts) and tool handlers (tools.ts).  *)
(***************************************************************************)
\* What becomes of a promise that nobody awaits: there is none, or it is
\* fulfilled, or it is rejected with no handler attached.
NoPromise == "none"

PromiseOutcomes == {"fulfilled", "rejected"}

\* balance.ts getETHBalance: the provider and the parsed address, whose errors
\* are thrown; then getContract, an async function of clients.ts, is called
\* without await, so ethContract is a promise: its outcome is that of the
\* node's getClassAt, and ethContract.address is undefined, which makes the
\* awaited provider.getClassHashAt(undefined, 'latest') throw.  floating is
\* the promise left behind.
getETHBalance(cache, built, address, networkArg, getClassAt) ==
  LET prefixed(a) == IF StartsWith(a, <<"0", "x">>) THEN a ELSE <<"0", "x">> \o a
      thrown(provider, error, promise) ==
        [ok |-> FALSE, value |-> Undefined, err |-> error, floating |-> promise,
         providerCache |-> provider.providerCache,
         constructed |-> provider.constructed]
      balance(provider) ==
        IF ~provider.ok THEN thrown(provider, provider.err, NoPromise)
        ELSE IF ~parseStarknetAddress(address).ok
          THEN thrown(provider,
                      NewError(<<Lit("Invalid Starknet address: "),
                                 Val(prefixed(address))>>),
                      NoPromise)
        ELSE thrown(provider,
                    [name |-> "TypeError",
                     message |-> <<Val(<<"Cannot convert undefined to a BigInt">>)>>],
                    getClassAt)
  IN balance(getProvider(cache, built, networkArg))

\* `Error: ${error.message || 'Unknown error occurred'}` with isError: true
ErrorResult(error) ==
  [threw |-> FALSE, isError |-> TRUE,
   text |-> <<Lit("Error: ")>>
              \o (IF errorMessage(error) = <<>>
                  THEN <<Lit("Unknown error occurred")>>
                  ELSE errorMessage(error))]

\* The handler of get_starknet_eth_balance: the address is resolved and the
\* balance read inside one try block; the catch block answers with the error.
get_starknet_eth_balance(cache, built, address, networkArg, directory, getClassAt) ==
  LET left(resolvedAddress, from, promise) ==
        [floating |-> promise, asked |-> resolvedAddress.name # Undefined,
         providerCache |-> from.providerCache, constructed |-> from.constructed]
      content(resolvedAddress, balance) ==
        IF ~balance.ok
        THEN ErrorResult(balance.err)
               @@ left(resolvedAddress, balance, balance.floating)
        ELSE [threw |-> FALSE, isError |-> FALSE, text |-> <<Val(balance.value)>>]
               @@ left(resolvedAddress, balance, balance.floating)
      try(resolvedAddress) ==
        IF ~resolvedAddress.ok
        THEN ErrorResult(resolvedAddress.err)
               @@ left(resolvedAddress, resolvedAddress, NoPromise)
        ELSE content(resolvedAddress,
                     getETHBalance(resolvedAddress.providerCache,
                                   resolvedAddress.constructed,
                                   resolvedAddress.value, networkArg, getClassAt))
  IN try(resolveNameOrAddress(cache, built, address, networkArg, directory))

\* The handler of validate_starknet_domain: no try block; the answer is the
\* domain and the verdict of isValidStarknetDomain.
validate_starknet_domain(domain) ==
  [threw |-> FALSE, isError |-> FALSE,
   text |-> <<Lit("domain"), Val(domain),
              Lit("isValid"), Val(isValidStarknetDomain(domain))>>]

(***************************************************************************)
(* Transfers and contract executions (transfer.ts and its earlier copy).   *)
(* A function is the list of its steps in the order of the source; the     *)
(* first step that throws ends it.  What the name directory, the fee       *)
(* estimate and the submission do is an input of the request.              *)
(***************************************************************************)
\* One step of a function: its name, whether it completed, the error if not.
Step(name, ok, err) == [name |-> name, ok |-> ok, err |-> err]

\* The steps run up to and including the first one that throws.
RunSteps(steps) ==
  LET failed == {i \in 1..Len(steps) : ~steps[i].ok}
      last == IF failed = {} THEN Len(steps)
              ELSE CHOOSE i \in failed : \A j \in failed : i <= j
  IN [ok |-> failed = {},
      err |-> IF failed = {} THEN Undefined ELSE steps[last].err,
      steps |-> [i \in 1..last |-> steps[i].name]]

\* BigInt(string) that throws: SyntaxError: Cannot convert <string> to a BigInt
CannotConvert(string) ==
  [name |-> "SyntaxError",
   message |-> <<Lit("Cannot convert "), Val(string), Lit(" to a BigInt")>>]

\* The error of parseStarknetAddress: it names the address of the call that
\* threw, which carries the prefix.
InvalidAddress(address) ==
  NewError(<<Lit("Invalid Starknet address: "),
             Val(IF StartsWith(address, <<"0", "x">>) THEN address
                 ELSE <<"0", "x">> \o address)>>)

\* clients.ts getAccount once the provider is there: the private key gets the
\* 0x prefix when it has none, and new Account(provider, address, key) builds
\* a Signer, whose constructor converts the key with toHex and so throws for
\* a key that is no number.  The account is returned, not kept.
getAccount(privateKey, accountAddress) ==
  LET formattedPrivateKey == IF StartsWith(privateKey, <<"0", "x">>) THEN privateKey
                             ELSE <<"0", "x">> \o privateKey
  IN IF BigIntOfString(formattedPrivateKey).ok
     THEN [ok |-> TRUE, err |-> Undefined,
           value |-> [class |-> "Account", address |-> accountAddress,
                      signer |-> formattedPrivateKey]]
     ELSE [ok |-> FALSE, err |-> CannotConvert(formattedPrivateKey),
           value |-> NoHandle]

\* What a transfer or an execution leaves: the outcome of its steps, the calls
\* of account.execute it made, and the caches as the last step reached left
\* them (resolved is the state after the name resolution, provider before it).
Outcome(run, resolveStep, provider, resolved, account, tx, maxFee) ==
  run @@ [submitted |-> IF \E i \in 1..Len(run.steps) : run.steps[i] = "execute"
                        THEN <<[tx |-> tx, maxFee |-> maxFee,
                                signer |-> account.value.signer]>>
                        ELSE <<>>,
          asked |-> Len(run.steps) >= resolveStep /\ resolved.name # Undefined,
          providerCache |-> IF Len(run.steps) >= resolveStep
                            THEN resolved.providerCache ELSE provider.providerCache,
          constructed |-> IF Len(run.steps) >= resolveStep
                          THEN resolved.constructed ELSE provider.constructed]

\* transfer.ts transferETH: provider, BigInt(amount), the parsed sender, the
\* resolved and parsed recipient, the account, the call (its contractAddress
\* is toAddress), the fee estimate, the fee, and account.execute.
transferETH(cache, built, params, networkArg, world) ==
  LET body(provider, amount, fromAddress, resolved, toAddress, account) ==
        Outcome(RunSteps(<<
                  Step("getProvider", provider.ok, provider.err),
                  Step("amount", amount.ok, CannotConvert(params.amount)),
                  Step("parseFrom", fromAddress.ok, InvalidAddress(params.from)),
                  Step("resolve", resolved.ok, resolved.err),
                  Step("parseTo", toAddress.ok, InvalidAddress(resolved.value)),
                  Step("getAccount", account.ok, account.err),
                  Step("bnToUint256", bnToUint256(amount.value).ok,
                       NewError(<<Lit("bigNumber is too large")>>)),
                  Step("estimateFee", world.estimateFee, NewError(<<Lit("estimateFee failed")>>)),
                  Step("maxFee",
                       params.maxFee = Undefined \/ params.maxFee = <<>>
                         \/ BigIntOfString(params.maxFee).ok,
                       CannotConvert(params.maxFee)),
                  Step("execute", world.execute, NewError(<<Lit("addInvokeTransaction failed")>>))>>),
                4, provider, resolved, account,
                [contractAddress |-> toAddress.value, entrypoint |-> "transfer",
                 recipient |-> toAddress.value, amount |-> amount.value],
                params.maxFee)
      withResolved(provider, resolved) ==
        body(provider, BigIntOfString(params.amount),
             parseStarknetAddress(params.from), resolved,
             parseStarknetAddress(resolved.value),
             getAccount(params.privateKey, parseStarknetAddress(params.from).value))
      withProvider(provider) ==
        withResolved(provider,
                     resolveNameOrAddress(provider.providerCache,
                                          provider.constructed, params.to,
                                          networkArg, world.directory))
  IN withProvider(getProvider(cache, built, networkArg))

\* transfer.ts transferERC20: as transferETH, with the token address parsed
\* after the recipient and the call made on the token contract.
transferERC20(cache, built, params, networkArg, world) ==
  LET body(provider, amount, fromAddress, resolved, toAddress, tokenAddress,
           account) ==
        Outcome(RunSteps(<<
                  Step("getProvider", provider.ok, provider.err),
                  Step("amount", amount.ok, CannotConvert(params.amount)),
                  Step("parseFrom", fromAddress.ok, InvalidAddress(params.from)),
                  Step("resolve", resolved.ok, resolved.err),
                  Step("parseTo", toAddress.ok, InvalidAddress(resolved.value)),
                  Step("parseToken", tokenAddress.ok,
                       InvalidAddress(params.tokenAddress)),
                  Step("getAccount", account.ok, account.err),
                  Step("bnToUint256", bnToUint256(amount.value).ok,
                       NewError(<<Lit("bigNumber is too large")>>)),
                  Step("estimateFee", world.estimateFee, NewError(<<Lit("estimateFee failed")>>)),
                  Step("maxFee",
                       params.maxFee = Undefined \/ params.maxFee = <<>>
                         \/ BigIntOfString(params.maxFee).ok,
                       CannotConvert(params.maxFee)),
                  Step("execute", world.execute, NewError(<<Lit("addInvokeTransaction failed")>>))>>),
                4, provider, resolved, account,
                [contractAddress |-> tokenAddress.value, entrypoint |-> "transfer",
                 recipient |-> toAddress.value, amount |-> amount.value],
                params.maxFee)
      withResolved(provider, resolved) ==
        body(provider, BigIntOfString(params.amount),
             parseStarknetAddress(params.from), resolved,
             parseStarknetAddress(resolved.value),
             parseStarknetAddress(params.tokenAddress),
             getAccount(params.privateKey, parseStarknetAddress(params.from).value))
      withProvider(provider) ==
        withResolved(provider,
                     resolveNameOrAddress(provider.providerCache,
                                          provider.constructed, params.to,
                                          networkArg, world.directory))
  IN withProvider(getProvider(cache, built, networkArg))

\* transfer.ts executeContract: provider, the parsed account address, the
\* resolved and parsed contract address, the account, the fee estimate, the
\* fee, and account.execute on the entrypoint of the contract.
executeContract(cache, built, params, networkArg, world) ==
  LET body(provider, accountAddress, resolved, contractAddress, account) ==
        Outcome(RunSteps(<<
                  Step("getProvider", provider.ok, provider.err),
                  Step("parseFrom", accountAddress.ok,
                       InvalidAddress(params.accountAddress)),
                  Step("resolve", resolved.ok, resolved.err),
                  Step("parseTo", contractAddress.ok,
                       InvalidAddress(resolved.value)),
                  Step("getAccount", account.ok, account.err),
                  Step("estimateFee", world.estimateFee, NewError(<<Lit("estimateFee failed")>>)),
                  Step("maxFee",
                       params.maxFee = Undefined \/ params.maxFee = <<>>
                         \/ BigIntOfString(params.maxFee).ok,
                       CannotConvert(params.maxFee)),
                  Step("execute", world.execute, NewError(<<Lit("addInvokeTransaction failed")>>))>>),
                3, provider, resolved, account,
                [contractAddress |-> contractAddress.value,
                 entrypoint |-> params.entrypoint],
                params.maxFee)
      withResolved(provider, resolved) ==
        body(provider, parseStarknetAddress(params.accountAddress), resolved,
             parseStarknetAddress(resolved.value),
             getAccount(params.privateKey,
                        parseStarknetAddress(params.accountAddress).value))
      withProvider(provider) ==
        withResolved(provider,
                     resolveNameOrAddress(provider.providerCache,
                                          provider.constructed,
                                          params.contractAddress, networkArg,
                                          world.directory))
  IN withProvider(getProvider(cache, built, networkArg))

\* The decimals of ETH, 18 in the source, scaled with the word: one whole
\* token fits the double word as 10^18 fits 2^256.
ETH_DECIMALS == MaxDecimals - 1

\* TOKEN_ADDRESSES.ETH of the earlier copy, scaled with the address.
TOKEN_ADDRESSES_ETH == <<"0", "x", "0", "4", "9">>

\* prepareTransfer of the earlier copy: the amount in units of the token by
\* parseTokenAmount, the parsed sender, the resolved and parsed recipient, the
\* account on the provider of the network, and the call on the token contract.
prepareTransfer(cache, built, params, tokenAddress, decimals, networkArg, directory) ==
  LET body(amount, fromAddress, resolved, toAddress, provider, account) ==
        LET run == RunSteps(<<
                     Step("amount", amount.ok,
                          IF amount.err = "TooManyDecimalPlaces"
                          THEN NewError(<<Lit("Amount has too many decimal places. Maximum allowed: "),
                                          Val(ToStringRadix(decimals, 10))>>)
                          ELSE CannotConvert(params.amount)),
                     Step("parseFrom", fromAddress.ok, InvalidAddress(params.from)),
                     Step("resolve", resolved.ok, resolved.err),
                     Step("parseTo", toAddress.ok, InvalidAddress(resolved.value)),
                     Step("getProvider", provider.ok, provider.err),
                     Step("getAccount", account.ok, account.err),
                     Step("bnToUint256", bnToUint256(amount.value).ok,
                          NewError(<<Lit("bigNumber is too large")>>))>>)
            reached == Len(run.steps)
            caches == IF reached >= 5 THEN provider
                      ELSE IF reached >= 3 THEN resolved
                      ELSE [providerCache |-> cache, constructed |-> built]
        IN run @@ [account |-> account,
                   tx |-> [contractAddress |-> tokenAddress,
                           entrypoint |-> "transfer",
                           recipient |-> toAddress.value,
                           amount |-> amount.value],
                   asked |-> reached >= 3 /\ resolved.name # Undefined,
                   providerCache |-> caches.providerCache,
                   constructed |-> caches.constructed]
      withResolved(resolved) ==
        body(parseTokenAmount(params.amount, decimals),
             parseStarknetAddress(params.from), resolved,
             parseStarknetAddress(resolved.value),
             getProvider(resolved.providerCache, resolved.constructed, networkArg),
             getAccount(params.privateKey, parseStarknetAddress(params.from).value))
  IN withResolved(resolveNameOrAddress(cache, built, params.to, networkArg,
                                       directory))

\* executeTransaction that goes on to account.execute when the fee estimate
\* threw.
executeTransaction_ignoringEstimate(prepared, maxFeeOverride, world) ==
  LET wrapped(run) ==
        IF run.ok THEN run
        ELSE [run EXCEPT !.err = NewError(<<Lit("Transaction failed: ")>> \o errorMessage(run.err))]
      try == RunSteps(<<Step("estimateFee", TRUE, Undefined),
                        Step("maxFee",
                             maxFeeOverride = Undefined \/ maxFeeOverride = <<>>
                               \/ BigIntOfString(maxFeeOverride).ok,
                             CannotConvert(maxFeeOverride)),
                        Step("execute", world.execute,
                             NewError(<<Lit("addInvokeTransaction failed")>>))>>)
  IN [asked |-> prepared.asked]
    @@ Outcome([wrapped(try) EXCEPT !.steps = prepared.steps \o @],
               1, prepared, prepared @@ [name |-> Undefined], prepared.account,
               prepared.tx, maxFeeOverride)

\* executeTransaction of the earlier copy, on what prepareTransfer returned:
\* inside one try block the fee estimate, the fee and account.execute; the
\* catch block logs the error and throws it again as 'Transaction failed'.
executeTransaction(prepared, maxFeeOverride, world) ==
  LET wrapped(run) ==
        IF run.ok THEN run
        ELSE [run EXCEPT !.err = NewError(<<Lit("Transaction failed: ")>> \o errorMessage(run.err))]
      try == RunSteps(<<Step("estimateFee", world.estimateFee,
                             NewError(<<Lit("estimateFee failed")>>)),
                        Step("maxFee",
                             maxFeeOverride = Undefined \/ maxFeeOverride = <<>>
                               \/ BigIntOfString(maxFeeOverride).ok,
                             CannotConvert(maxFeeOverride)),
                        Step("execute", world.execute,
                             NewError(<<Lit("addInvokeTransaction failed")>>))>>)
  IN [asked |-> prepared.asked]
    @@ Outcome([wrapped(try) EXCEPT !.steps = prepared.steps \o @],
               1, prepared, prepared @@ [name |-> Undefined], prepared.account,
               prepared.tx, maxFeeOverride)

\* transferETH of the earlier copy: prepareTransfer on the ETH contract with
\* 18 decimals inside a try block whose catch throws 'ETH transfer failed';
\* then executeTransaction, whose promise is returned as it is.
transferETH_part007(cache, built, params, networkArg, world) ==
  LET transfer(prepared) ==
        IF prepared.ok THEN executeTransaction(prepared, params.maxFee, world)
        ELSE [ok |-> FALSE,
              err |-> NewError(<<Lit("ETH transfer failed: ")>> \o errorMessage(prepared.err)),
              steps |-> prepared.steps, submitted |-> <<>>,
              asked |-> prepared.asked,
              providerCache |-> prepared.providerCache,
              constructed |-> prepared.constructed]
  IN transfer(prepareTransfer(cache, built, params, TOKEN_ADDRESSES_ETH,
                              ETH_DECIMALS, networkArg, world.directory))

\* What a transfer or execute tool answers: the hash of the transaction, or
\* in the catch block `<prefix>${error.message || 'Unknown error occurred'}`
\* with isError: true.  The steps and the submissions are kept beside it.
TransferResult(prefix, result) ==
  [isError |-> ~result.ok,
   text |-> IF result.ok
            THEN <<Lit("txHash"), Lit("Transaction submitted successfully.")>>
            ELSE <<Lit(prefix)>>
                   \o (IF errorMessage(result.err) = <<>>
                       THEN <<Lit("Unknown error occurred")>>
                       ELSE errorMessage(result.err)),
   steps |-> result.steps, submitted |-> result.submitted]

(***************************************************************************)
(* Transactions (transactions.ts and its earlier copies).  What the node   *)
(* answers to a receipt request, and how long it takes, is an input of the *)
(* request.  A text of the node is a sequence of pieces of text.           *)
(***************************************************************************)
\* A receipt as provider.getTransactionReceipt returns it; a field the node
\* left out reads "undefined" (a status) or Undefined (the reason).
Receipt(finality, execution, reason) ==
  [threw |-> FALSE, finality_status |-> finality, execution_status |-> execution,
   revert_reason |-> reason]

\* provider.getTransactionReceipt that throws an error with this message.
NodeError(message) == [threw |-> TRUE, error |-> NewError(<<Val(message)>>)]

\* No receipt: the node was not asked, or it threw.
NoReceipt == Receipt("undefined", "undefined", Undefined)

\* transactions.ts getTransactionReceipt: the provider of the network, the
\* parsed hash, then the node's answer.
getTransactionReceipt(cache, built, txHash, networkArg, answer) ==
  LET request(provider, formattedTxHash) ==
        IF ~provider.ok
        THEN [ok |-> FALSE, value |-> NoReceipt, err |-> provider.err,
              asked |-> FALSE, providerCache |-> provider.providerCache,
              constructed |-> provider.constructed]
        ELSE IF ~formattedTxHash.ok
          THEN [ok |-> FALSE, value |-> NoReceipt, err |-> InvalidAddress(txHash),
                asked |-> FALSE, providerCache |-> provider.providerCache,
                constructed |-> provider.constructed]
        ELSE IF answer.threw
          THEN [ok |-> FALSE, value |-> NoReceipt, err |-> answer.error,
                asked |-> TRUE, providerCache |-> provider.providerCache,
                constructed |-> provider.constructed]
        ELSE [ok |-> TRUE, value |-> answer, err |-> Undefined,
              asked |-> TRUE, providerCache |-> provider.providerCache,
              constructed |-> provider.constructed]
  IN request(getProvider(cache, built, networkArg), parseStarknetAddress(txHash))

\* transactions.ts isTransactionConfirmed:
\* receipt.finality_status === constants.StarknetChainId.SN_MAIN
isTransactionConfirmed(cache, built, txHash, networkArg, answer) ==
  LET confirmed(receipt) ==
        IF ~receipt.ok THEN [receipt EXCEPT !.value = Undefined]
        ELSE [receipt EXCEPT
                !.value = (receipt.value.finality_status = CHAIN_IDS[MainnetName])]
  IN confirmed(getTransactionReceipt(cache, built, txHash, networkArg, answer))

\* isTransactionConfirmed of an earlier copy: the status is compared with
\* TransactionFinalityStatus.ACCEPTED_ON_L1 and ACCEPTED_ON_L2, and an error is
\* logged and answered with false.
isTransactionConfirmed_part002(cache, built, txHash, networkArg, answer) ==
  LET confirmed(receipt) ==
        IF ~receipt.ok
        THEN [receipt EXCEPT !.ok = TRUE, !.value = FALSE, !.err = Undefined]
        ELSE [receipt EXCEPT
                !.value = (receipt.value.finality_status
                             \in {"ACCEPTED_ON_L1", "ACCEPTED_ON_L2"})]
  IN confirmed(getTransactionReceipt(cache, built, txHash, networkArg, answer))

\* isTransactionConfirmed of another earlier copy: the same comparison with
\* the two literals, and no catch block.
isTransactionConfirmed_part003(cache, built, txHash, networkArg, answer) ==
  LET confirmed(receipt) ==
        IF ~receipt.ok THEN [receipt EXCEPT !.value = Undefined]
        ELSE [receipt EXCEPT
                !.value = (receipt.value.finality_status = "ACCEPTED_ON_L1"
                           \/ receipt.value.finality_status = "ACCEPTED_ON_L2")]
  IN confirmed(getTransactionReceipt(cache, built, txHash, networkArg, answer))

\* The handler of the tool check_starknet_transaction_status: the hash and
\* isConfirmed as JSON, or the text of the error.
check_starknet_transaction_status(txHash, result) ==
  [isError |-> ~result.ok,
   text |-> IF result.ok
            THEN <<Lit("txHash"), Val(txHash), Lit("isConfirmed"), Val(result.value)>>
            ELSE <<Lit("Error checking transaction status: ")>>
                   \o (IF errorMessage(result.err) = <<>>
                       THEN <<Lit("Unknown error occurred")>>
                       ELSE errorMessage(result.err))]

\* A number as an option holds it; an option left out is Undefined.
Num(n) == <<"number", n>>

\* option || fallback, for an option that is a number or left out: 0 is falsy.
OrElse(option, fallback) ==
  IF option = Undefined THEN fallback
  ELSE IF option[2] = 0 THEN fallback ELSE option[2]

\* The text of a message, piece by piece: a fixed part is one piece, a value
\* put into the message brings its own pieces.
RECURSIVE TextOf(_)
TextOf(message) ==
  IF message = <<>> THEN <<>>
  ELSE (IF Head(message).fixed THEN <<Head(message).text>> ELSE Head(message).text)
         \o TextOf(Tail(message))

\* String.prototype.includes
IncludesText(text, needle) ==
  \E k \in 1..(Len(text) - Len(needle) + 1) :
    SubSeq(text, k, k + Len(needle) - 1) = needle

\* 'Transaction hash not found'
HashNotFound == <<"Transaction hash not found">>

\* The default timeout and polling interval of waitForTransaction, in ms.
DefaultTimeoutMs == 60000

DefaultIntervalMs == 1000

\* The longest time since the start of a wait that the model tells apart.
MaxElapsed == 62000

\* An error as a wait that threw it holds it: its name and the text of its
\* message.
Thrown(error) == [name |-> error.name, message |-> TextOf(errorMessage(error))]

\* No error: what a wait that has not thrown holds for its error.
NoError == [name |-> "undefined", message |-> <<>>]

\* A loop that has no condition: while (true).
whileElapsed_forever(wait) == [wait EXCEPT !.pc = "request"]

\* The condition of the while loop, read when the loop is entered and after
\* each sleep: the next request is sent, or the wait ends with the timeout
\* error.
whileElapsed(wait) ==
  IF wait.elapsed < wait.timeoutMs THEN [wait EXCEPT !.pc = "request"]
  ELSE [wait EXCEPT
          !.pc = "thrown",
          !.err = Thrown(NewError(<<Lit("Transaction not confirmed within "),
                                    Val(ToStringRadix(wait.timeoutMs, 10)),
                                    Lit("ms timeout")>>))]

\* waitForTransaction up to its first await: the provider, the parsed hash,
\* the two options with their defaults, the start of the clock and the first
\* test of the loop.
waitForTransaction(cache, built, txHash, options, networkArg) ==
  LET begin(provider, formattedTxHash) ==
        LET wait == [pc |-> "while", timeoutMs |-> OrElse(options.timeout, DefaultTimeoutMs),
                     intervalMs |-> OrElse(options.interval, DefaultIntervalMs),
                     elapsed |-> 0, last |-> NoReceipt, value |-> NoReceipt,
                     err |-> NoError,
                     providerCache |-> provider.providerCache,
                     constructed |-> provider.constructed]
        IN IF ~provider.ok
           THEN [wait EXCEPT !.pc = "thrown", !.err = Thrown(provider.err)]
           ELSE IF ~formattedTxHash.ok
             THEN [wait EXCEPT !.pc = "thrown",
                               !.err = Thrown(InvalidAddress(txHash))]
           ELSE whileElapsed(wait)
  IN begin(getProvider(cache, built, networkArg), parseStarknetAddress(txHash))

\* The body of the catch block: a message that includes 'Transaction hash not
\* found' leads to the sleep, any other error is thrown on.
catchError(wait, error) ==
  IF IncludesText(TextOf(errorMessage(error)), HashNotFound)
  THEN [wait EXCEPT !.pc = "sleep"]
  ELSE [wait EXCEPT !.pc = "thrown", !.err = Thrown(error)]

\* The body of the try block once the request is answered, after `took` ms:
\* a SUCCEEDED receipt is returned; for a REVERTED receipt an error is thrown,
\* inside the try block; any other receipt leads to the sleep.  What the
\* request threw, and what the block threw, goes to the catch block.
receiptAnswered(wait, answer, took) ==
  LET now == [wait EXCEPT !.elapsed = Min(MaxElapsed, @ + took), !.last = answer]
  IN IF answer.threw THEN catchError(now, answer.error)
     ELSE IF answer.execution_status = "SUCCEEDED"
       THEN [now EXCEPT !.pc = "returned", !.value = answer]
     ELSE IF answer.execution_status = "REVERTED"
       THEN catchError(now,
                       NewError(<<Lit("Transaction reverted: "),
                                  IF answer.revert_reason \in {Undefined, <<>>}
                                  THEN Lit("Unknown reason")
                                  ELSE Val(answer.revert_reason)>>))
     ELSE [now EXCEPT !.pc = "sleep"]

\* setTimeout(resolve, intervalMs) fires after the interval, and after 1 ms
\* for an interval below 1; then the loop tests its condition again.
sleepOver(wait) ==
  whileElapsed([wait EXCEPT !.elapsed = Min(MaxElapsed, @ + Max(wait.intervalMs, 1))])

(***************************************************************************)
(* Inputs.                                                                 *)
(***************************************************************************)
\* bigint arguments: the double-word domain and a margin on both sides.
Values == (0 - ValueSlack)..(DoubleModulus + ValueSlack)

\* Word arguments as the provider or a caller gives them: hex or decimal
\* literals inside and outside the word, and two strings that are no integer.
WordStrings ==
  {HexString(n) : n \in 0..(WordModulus + ValueSlack)}
    \cup {ToStringRadix(n, 10) : n \in {0, 1, WordModulus - 1, WordModulus}}
    \cup {<<"0", "x">>, <<"0", "x", "-", "1">>}

\* All strings over an alphabet up to a length.
StringsUpTo(alphabet, n) == UNION {[1..k -> alphabet] : k \in 0..n}

\* Raw token amounts as a contract returns them: never negative.
RawAmounts == (0..MaxRaw) \cup {10 ^ MaxDecimals, 10 ^ MaxDecimals + 1}

Decimals == 0..MaxDecimals

\* Amounts as a user types them: digits, the decimal point and a sign.
AmountChars == {"0", "1", "7", ".", "-"}

AmountStrings == StringsUpTo(AmountChars, MaxAmountLen)

\* bigint amounts handed to the transfer service.
BigintAmounts == (0 - ValueSlack)..ValueSlack

\* Addresses as a user types them: hex digits of both cases, the prefix letter
\* in both cases, and a letter that is no hex digit.
AddressChars == {"0", "1", "F", "x", "X", "g"}

AddressStrings == StringsUpTo(AddressChars, MaxAddrLen)

\* Network arguments: left out, the two supported names and a name that is not
\* supported.
GoerliName == <<"g", "o", "e", "r", "l", "i">>

NetworkArgs == {Undefined, MainnetName, SepoliaName, GoerliName}

\* Identifiers as a caller gives them: names with and without the suffix, a
\* name with a capital, a string that is no name, the empty string, and one
\* address written without the prefix, with it, and in full.
Identifiers ==
  {<<"v", "i", "t", "a", "l", "i", "k">>,
   <<"v", "i", "t", "a", "l", "i", "k", ".", "s", "t", "a", "r", "k">>,
   <<"V", "i", "t", "a", "l", "i", "k", ".", "s", "t", "a", "r", "k">>,
   <<"v", "!">>,
   <<>>,
   <<"1", "F">>,
   <<"0", "x", "1", "f">>,
   validateAndParseAddress(<<"1", "F">>).value}

\* Network names handed to getNetwork: left out, the supported names in lower
\* case, in capitals and in mixed case, a name that is not supported, and the
\* name of a property that every object has.
NetworkNames ==
  NetworkArgs \cup {<<"M", "A", "I", "N", "N", "E", "T">>, <<"S", "e", "p", "o", "l", "i", "a">>,
                    <<"c", "o", "n", "s", "t", "r", "u", "c", "t", "o", "r">>}

\* The longest base that the model builds from every character.
MaxDomainBase == 2

\* Characters of a candidate name: a letter, a digit, the hyphen, a capital
\* and the dot.
DomainChars == {"a", "1", "-", "A", "."}

\* The character c, n times.
Repeat(c, n) == [i \in 1..n |-> c]

\* Candidate names: every short base, bases at and next to the length limits
\* of the two copies, and a usual name; each with and without the suffix.
DomainBases ==
  StringsUpTo(DomainChars, MaxDomainBase)
    \cup {Repeat("a", n) : n \in {MaxBaseDomainLength, MaxBaseDomainLength + 1,
                                  StarkRootLabelMax, StarkRootLabelMax + 1}}
    \cup {<<"v", "i", "t", "a", "l", "i", "k">>}

DomainStrings == DomainBases \cup {base \o StarkSuffix : base \in DomainBases}

\* Values a contract call gives or takes, as strings: short strings in hex and
\* in decimal, hex that is none, text, a negative number, the empty string and
\* the first number beyond the double word.
ContractValues ==
  {<<"0", "x", "6", "1">>, <<"9", "7">>, <<"0", "x", "6">>, <<"0", "x", "z", "z">>, <<"a", "b", "c">>, <<"-", "1">>, <<>>,
   ToStringRadix(DoubleModulus, 10)}

ValueTypes == {"felt", "uint256", "address", "string"}

\* Addresses handed to a read of a balance: one that is valid, one that is not.
BalanceAddresses == {<<"1", "F">>, <<"0", "x", "z", "z">>}

\* What the node may do for a read of a balance: answer with numbers, answer
\* with a balance that is no number, fail a call, or not find the contract.
NodeAnswers ==
  {NodeAnswered(ToStringRadix(MaxRaw, 10), MaxDecimals),
   NodeAnswered(<<"a", "b", "c">>, MaxDecimals),
   NodeCallFailed, NodeClassNotFound}

\* Names handed to the lookup of the directory.
StarkNames == {<<"v", "i", "t", "a", "l", "i", "k", ".", "s", "t", "a", "r", "k">>}

\* The zero address in full.
ZeroAddress == <<"0", "x">> \o PadStart(<<>>, AddrHexLen, "0")

\* What the directory may answer: nothing, zero in four spellings, an address
\* in short and in full, or a failure of the call.
DirectoryAnswers ==
  {Returned(a) : a \in {<<>>, <<"0", "x", "0">>, <<"0", "x", "0", "0">>, ZeroAddress, <<"0">>,
                        <<"0", "x", "1", "f">>,
                        validateAndParseAddress(<<"1", "F">>).value}}
    \cup {Threw}

\* The operations that may be in flight together.
Tasks == {"t1", "t2"}

IdleTask == [pc |-> "idle"]

NoChain == [from |-> "none"]

\* No call is in progress: the layer keeps no state between calls.
Init ==
  /\ op = "idle"
  /\ arg = <<>>
  /\ res = <<>>
  /\ chain = NoChain
  /\ providerCache = <<>>
  /\ navigatorCache = <<>>
  /\ constructed = <<>>
  /\ tasks = [t \in Tasks |-> IdleTask]

SplitUint256 ==
  \E value \in Values :
    /\ op = "idle"
    /\ op' = "splitUint256"
    /\ arg' = [value |-> value]
    /\ res' = splitUint256(value)
    /\ chain' = NoChain
    /\ UNCHANGED handleVars

BigintToUint256 ==
  \E value \in Values :
    /\ op = "idle"
    /\ op' = "bigintToUint256"
    /\ arg' = [value |-> value]
    /\ res' = bigintToUint256(value)
    /\ chain' = NoChain
    /\ UNCHANGED handleVars

CombineUint256 ==
  \E low \in WordStrings, high \in WordStrings :
    /\ op = "idle"
    /\ op' = "combineUint256"
    /\ arg' = [low |-> low, high |-> high]
    /\ res' = combineUint256(low, high)
    /\ chain' = NoChain
    /\ UNCHANGED handleVars

Uint256ToBigint ==
  \E low \in WordStrings, high \in WordStrings :
    /\ op = "idle"
    /\ op' = "uint256ToBigint"
    /\ arg' = [low |-> low, high |-> high]
    /\ res' = uint256ToBigint(low, high)
    /\ chain' = NoChain
    /\ UNCHANGED handleVars

\* combineUint256 applied to the pair the preceding splitUint256 returned.
CombineSplit ==
  /\ op = "splitUint256"
  /\ res.ok
  /\ op' = "combineUint256"
  /\ arg' = [low |-> res.low, high |-> res.high]
  /\ res' = combineUint256(res.low, res.high)
  /\ chain' = [from |-> "splitUint256", value |-> arg.value]
  /\ UNCHANGED handleVars

FormatAmount ==
  \E amount \in RawAmounts, decimals \in Decimals :
    /\ op = "idle"
    /\ op' = "formatAmount"
    /\ arg' = [amount |-> amount, decimals |-> decimals]
    /\ res' = [ok |-> TRUE, value |-> formatAmount(amount, decimals)]
    /\ chain' = NoChain
    /\ UNCHANGED handleVars

FormatTokenAmount ==
  \E amount \in RawAmounts, decimals \in Decimals :
    /\ op = "idle"
    /\ op' = "formatTokenAmount"
    /\ arg' = [amount |-> amount, decimals |-> decimals]
    /\ res' = [ok |-> TRUE, value |-> formatTokenAmount(amount, decimals)]
    /\ chain' = NoChain
    /\ UNCHANGED handleVars

FormatAmountGetTokenBalance ==
  \E amount \in RawAmounts, decimals \in Decimals :
    /\ op = "idle"
    /\ op' = "formatAmount_getTokenBalance"
    /\ arg' = [amount |-> amount, decimals |-> decimals]
    /\ res' = [ok |-> TRUE, value |-> formatAmount_getTokenBalance(amount, decimals)]
    /\ chain' = NoChain
    /\ UNCHANGED handleVars

ParseTokenAmount ==
  \E amount \in AmountStrings, decimals \in Decimals :
    /\ op = "idle"
    /\ op' = "parseTokenAmount"
    /\ arg' = [kind |-> "string", amount |-> amount, decimals |-> decimals]
    /\ res' = parseTokenAmount(amount, decimals)
    /\ chain' = NoChain
    /\ UNCHANGED handleVars

ParseTokenAmountBigint ==
  \E amount \in BigintAmounts, decimals \in Decimals :
    /\ op = "idle"
    /\ op' = "parseTokenAmount"
    /\ arg' = [kind |-> "bigint", amount |-> amount, decimals |-> decimals]
    /\ res' = parseTokenAmountBigint(amount, decimals)
    /\ chain' = NoChain
    /\ UNCHANGED handleVars

\* parseTokenAmount applied to the string the preceding formatAmount returned,
\* with the same decimals.
ParseFormatted ==
  /\ op = "formatAmount_getTokenBalance"
  /\ op' = "parseTokenAmount"
  /\ arg' = [kind |-> "string", amount |-> res.value, decimals |-> arg.decimals]
  /\ res' = parseTokenAmount(res.value, arg.decimals)
  /\ chain' = [from |-> "formatAmount", amount |-> arg.amount]
  /\ UNCHANGED handleVars

ParseStarknetAddress ==
  \E address \in AddressStrings :
    /\ op = "idle"
    /\ op' = "parseStarknetAddress"
    /\ arg' = [address |-> address]
    /\ res' = parseStarknetAddress(address)
    /\ chain' = NoChain
    /\ UNCHANGED handleVars

\* parseStarknetAddress applied to the address the preceding call returned.
ParseParsedAddress ==
  /\ op = "parseStarknetAddress"
  /\ res.ok
  /\ chain.from = "none"
  /\ op' = "parseStarknetAddress"
  /\ arg' = [address |-> res.value]
  /\ res' = parseStarknetAddress(res.value)
  /\ chain' = [from |-> "parseStarknetAddress", input |-> arg.address, prev |-> res]
  /\ UNCHANGED handleVars

\* parseStarknetAddress applied to "0x" + h after the call on h, for an h
\* that does not start with 0x.
ParsePrefixedAddress ==
  /\ op = "parseStarknetAddress"
  /\ chain.from = "none"
  /\ ~StartsWith(arg.address, <<"0", "x">>)
  /\ op' = "parseStarknetAddress"
  /\ arg' = [address |-> <<"0", "x">> \o arg.address]
  /\ res' = parseStarknetAddress(<<"0", "x">> \o arg.address)
  /\ chain' = [from |-> "prefix", input |-> arg.address, prev |-> res]
  /\ UNCHANGED handleVars

\* utils.isValidAddress on what a user may type as an address or as a name.
IsValidAddress ==
  \E address \in AddressStrings \cup Identifiers :
    /\ op = "idle"
    /\ op' = "isValidAddress"
    /\ arg' = [address |-> address]
    /\ res' = [ok |-> TRUE, value |-> isValidAddress(address)]
    /\ chain' = NoChain
    /\ UNCHANGED handleVars

\* chains.ts getNetwork
GetNetwork ==
  \E networkName \in NetworkNames :
    /\ op = "idle"
    /\ op' = "getNetwork"
    /\ arg' = [networkName |-> networkName]
    /\ res' = getNetwork(networkName)
    /\ chain' = NoChain
    /\ UNCHANGED handleVars

\* starknetid.ts isValidStarknetDomain, the copy that uses the library; the
\* validate_starknet_domain tool returns its result.
IsValidStarknetDomain ==
  \E domain \in DomainStrings :
    /\ op = "idle"
    /\ op' = "isValidStarknetDomain"
    /\ arg' = [domain |-> domain, copy |-> "library"]
    /\ res' = [ok |-> TRUE, value |-> isValidStarknetDomain(domain)]
    /\ chain' = NoChain
    /\ UNCHANGED handleVars

\* starknetid.ts isValidStarknetDomain, the earlier copy.
IsValidStarknetDomainEarlier ==
  \E domain \in DomainStrings :
    /\ op = "idle"
    /\ op' = "isValidStarknetDomain"
    /\ arg' = [domain |-> domain, copy |-> "earlier"]
    /\ res' = [ok |-> TRUE, value |-> isValidStarknetDomain_earlier(domain)]
    /\ chain' = NoChain
    /\ UNCHANGED handleVars

\* utils.formatContractValue
FormatContractValue ==
  \E value \in ContractValues, type \in ValueTypes :
    /\ op = "idle"
    /\ op' = "formatContractValue"
    /\ arg' = [value |-> value, type |-> type]
    /\ res' = formatContractValue(value, type)
    /\ chain' = NoChain
    /\ UNCHANGED handleVars

\* The caller takes the result; the next call starts from the idle state.
\* A process that has ended returns nothing.
Return ==
  /\ op \notin {"idle", "exit"}
  /\ op' = "idle"
  /\ arg' = <<>>
  /\ res' = <<>>
  /\ chain' = NoChain
  /\ UNCHANGED handleVars

Next ==
  \/ SplitUint256
  \/ BigintToUint256
  \/ CombineUint256
  \/ Uint256ToBigint
  \/ CombineSplit
  \/ FormatAmount
  \/ FormatTokenAmount
  \/ FormatAmountGetTokenBalance
  \/ ParseTokenAmount
  \/ ParseTokenAmountBigint
  \/ ParseFormatted
  \/ ParseStarknetAddress
  \/ ParseParsedAddress
  \/ ParsePrefixedAddress
  \/ IsValidAddress
  \/ GetNetwork
  \/ IsValidStarknetDomain
  \/ IsValidStarknetDomainEarlier
  \/ Return

Spec == Init /\ [][Next]_vars

(***************************************************************************)
(* The services that keep handles: one call at a time.                     *)
(***************************************************************************)
\* The most navigators built for one network that the model follows.
MaxConstructed == 2

\* utils.resolveNameOrAddress, with what the directory answers if it is asked.
ResolveNameOrAddress ==
  /\ op = "idle"
  /\ \E nameOrAddress \in Identifiers, network \in NetworkArgs,
        directory \in DirectoryAnswers :
       /\ Built(constructed, "StarknetIdNavigator",
                OrDefault(network, MainnetName)) < MaxConstructed
       /\ \E r \in {resolveNameOrAddress(providerCache, constructed, nameOrAddress,
                                      network, directory)} :
           /\ op' = "resolveNameOrAddress"
           /\ arg' = [nameOrAddress |-> nameOrAddress, network |-> network,
                      directory |-> IF r.name = Undefined THEN NotAsked ELSE directory]
           /\ res' = [ok |-> r.ok, value |-> r.value, err |-> r.err,
                      navigator |-> r.navigator, name |-> r.name]
           /\ chain' = NoChain
           /\ providerCache' = r.providerCache
           /\ constructed' = r.constructed
           /\ UNCHANGED <<navigatorCache, tasks>>

\* starknetid.ts getAddressFromStarkName, with what the directory answers.
GetAddressFromStarkName ==
  /\ op = "idle"
  /\ \E name \in StarkNames, network \in NetworkArgs, directory \in DirectoryAnswers :
       \E r \in {getAddressFromStarkName(providerCache, navigatorCache, constructed,
                                         name, network, directory)} :
          /\ op' = "getAddressFromStarkName"
          /\ arg' = [name |-> name, network |-> network,
                     directory |-> IF r.navigator = NoHandle THEN NotAsked ELSE directory]
          /\ res' = [ok |-> r.ok, value |-> r.value, err |-> r.err,
                     caught |-> r.caught, navigator |-> r.navigator]
          /\ chain' = NoChain
          /\ providerCache' = r.providerCache
          /\ navigatorCache' = r.navigatorCache
          /\ constructed' = r.constructed
          /\ UNCHANGED tasks

\* utils.resolveNameOrAddress called again, for another identifier on the same
\* network, by a caller whose call before failed; the identifier and the error
\* of the failed call are kept for comparison.
ResolveAfterFailure ==
  /\ op = "resolveNameOrAddress"
  /\ ~res.ok
  /\ chain.from = "none"
  /\ Built(constructed, "StarknetIdNavigator",
           OrDefault(arg.network, MainnetName)) < MaxConstructed
  /\ \E nameOrAddress \in Identifiers, directory \in DirectoryAnswers :
       \E r \in {resolveNameOrAddress(providerCache, constructed, nameOrAddress,
                                       arg.network, directory)} :
         /\ op' = "resolveNameOrAddress"
         /\ arg' = [nameOrAddress |-> nameOrAddress, network |-> arg.network,
                    directory |-> IF r.name = Undefined THEN NotAsked ELSE directory]
         /\ res' = [ok |-> r.ok, value |-> r.value, err |-> r.err,
                    navigator |-> r.navigator, name |-> r.name]
         /\ chain' = [from |-> "resolveNameOrAddress",
                      nameOrAddress |-> arg.nameOrAddress, err |-> res.err]
         /\ providerCache' = r.providerCache
         /\ constructed' = r.constructed
         /\ UNCHANGED <<navigatorCache, tasks>>

\* getTokenBalance of the older balance service, with what the node does if
\* it is asked.
GetTokenBalance ==
  /\ op = "idle"
  /\ \E tokenAddress \in BalanceAddresses, ownerAddress \in BalanceAddresses,
        network \in NetworkArgs, node \in NodeAnswers :
       \E r \in {getTokenBalance(providerCache, constructed, tokenAddress,
                                 ownerAddress, network, node)} :
          /\ op' = "getTokenBalance"
          /\ arg' = [tokenAddress |-> tokenAddress, ownerAddress |-> ownerAddress,
                     network |-> network,
                     node |-> IF r.asked THEN node ELSE NodeClassNotFound]
          /\ res' = [ok |-> r.ok, value |-> r.value, err |-> r.err,
                     caught |-> r.caught]
          /\ chain' = NoChain
          /\ providerCache' = r.providerCache
          /\ constructed' = r.constructed
          /\ UNCHANGED <<navigatorCache, tasks>>

\* A request for the tool get_starknet_eth_balance, with what the directory
\* answers if it is asked and what becomes of the node's getClassAt.
GetStarknetEthBalance ==
  /\ op = "idle"
  /\ \E address \in Identifiers, network \in NetworkArgs,
        directory \in DirectoryAnswers, getClassAt \in PromiseOutcomes :
       /\ Built(constructed, "StarknetIdNavigator",
                OrDefault(network, MainnetName)) < MaxConstructed
       /\ \E r \in {get_starknet_eth_balance(providerCache, constructed, address,
                                          network, directory, getClassAt)} :
           /\ op' = "get_starknet_eth_balance"
           /\ arg' = [address |-> address, network |-> network,
                      directory |-> IF r.asked THEN directory ELSE NotAsked]
           /\ res' = [threw |-> r.threw, isError |-> r.isError, text |-> r.text,
                      floating |-> r.floating]
           /\ chain' = NoChain
           /\ providerCache' = r.providerCache
           /\ constructed' = r.constructed
           /\ UNCHANGED <<navigatorCache, tasks>>

\* A request for the tool validate_starknet_domain.
ValidateStarknetDomain ==
  \E domain \in Identifiers :
    /\ op = "idle"
    /\ op' = "validate_starknet_domain"
    /\ arg' = [domain |-> domain]
    /\ res' = validate_starknet_domain(domain) @@ [floating |-> NoPromise]
    /\ chain' = NoChain
    /\ UNCHANGED handleVars

\* The runtime finds a rejected promise that has no handler: the process
\* ends with the unhandled rejection, and serves no request after it.
UnhandledRejection ==
  /\ op = "get_starknet_eth_balance"
  /\ res.floating = "rejected"
  /\ op' = "exit"
  /\ arg' = <<>>
  /\ res' = <<>>
  /\ chain' = NoChain
  /\ UNCHANGED handleVars

NextServices ==
  \/ GetStarknetEthBalance
  \/ ValidateStarknetDomain
  \/ UnhandledRejection
  \/ ResolveNameOrAddress
  \/ ResolveAfterFailure
  \/ GetAddressFromStarkName
  \/ GetTokenBalance
  \/ FormatContractValue
  \/ Return

SpecServices == Init /\ [][NextServices]_vars

(***************************************************************************)
(* Operations in flight together.  A function that is not async runs to    *)
(* its end before anything else runs; an async operation gives way at each *)
(* await.  getProvider and getStarknetIdNavigator are not async, so each    *)
(* is one step of the operation that calls it.                             *)
(***************************************************************************)
\* transactions.ts getTransaction up to its await: the provider of the network
\* is taken; a network that is not supported makes the operation throw.
BeginGetTransaction(t) ==
  \E network \in NetworkArgs :
    \E r \in {getProvider(providerCache, constructed, network)} :
       /\ tasks[t].pc = "idle"
       /\ tasks' = [tasks EXCEPT ![t] =
                      [pc |-> IF r.ok THEN "awaiting" ELSE "done",
                       op |-> "getTransaction", network |-> network,
                       received |-> r.ok,
                       handle |-> IF r.ok THEN r.value ELSE NoHandle,
                       threw |-> ~r.ok]]
       /\ providerCache' = r.providerCache
       /\ constructed' = r.constructed
       /\ UNCHANGED <<op, arg, res, chain, navigatorCache>>

\* starknetid.ts getStarkName up to its await: the navigator of the network is
\* taken; a network that is not supported is caught and '' returned.
BeginGetStarkName(t) ==
  \E network \in NetworkArgs :
    \E r \in {getStarknetIdNavigator(providerCache, navigatorCache, constructed,
                                     network)} :
       /\ tasks[t].pc = "idle"
       /\ tasks' = [tasks EXCEPT ![t] =
                      [pc |-> IF r.ok THEN "awaiting" ELSE "done",
                       op |-> "getStarkName", network |-> network,
                       received |-> r.ok,
                       handle |-> IF r.ok THEN r.value ELSE NoHandle,
                       threw |-> FALSE]]
       /\ providerCache' = r.providerCache
       /\ navigatorCache' = r.navigatorCache
       /\ constructed' = r.constructed
       /\ UNCHANGED <<op, arg, res, chain>>

\* The awaited answer of the remote node arrives, or the call to it fails:
\* getTransaction passes the failure on, getStarkName catches it.
Settle(t) ==
  \E rejected \in BOOLEAN :
    /\ tasks[t].pc = "awaiting"
    /\ tasks' = [tasks EXCEPT ![t].pc = "done",
                              ![t].threw = rejected /\ tasks[t].op = "getTransaction"]
    /\ UNCHANGED <<op, arg, res, chain, providerCache, navigatorCache, constructed>>

\* The caller has the outcome of the operation.
Finish(t) ==
  /\ tasks[t].pc = "done"
  /\ tasks' = [tasks EXCEPT ![t] = IdleTask]
  /\ UNCHANGED <<op, arg, res, chain, providerCache, navigatorCache, constructed>>

NextHandles ==
  \E t \in Tasks :
    \/ BeginGetTransaction(t)
    \/ BeginGetStarkName(t)
    \/ Settle(t)
    \/ Finish(t)

SpecHandles == Init /\ [][NextHandles]_vars

(***************************************************************************)
(* Transfer and execute requests: one request at a time.                   *)
(***************************************************************************)
\* What happens outside the process during a request: the answer of the name
\* directory, and whether the fee estimate and the submission succeed.
Worlds ==
  [directory : {Returned(validateAndParseAddress(<<"2", "a">>).value),
                Returned(<<>>), Threw},
   estimateFee : BOOLEAN, execute : BOOLEAN]

\* The part of the world a request met: what it did not reach is left out.
Met(world, r) ==
  LET reached(step) == \E i \in 1..Len(r.steps) : r.steps[i] = step
  IN [directory |-> IF r.asked THEN world.directory ELSE NotAsked,
      estimateFee |-> reached("estimateFee") /\ world.estimateFee,
      execute |-> reached("execute") /\ world.execute]

\* The parameters of a request.  Private keys: hex digits without the prefix,
\* and a key with a character that is no hex digit.  Sender and recipient (or
\* account and contract): an address, a StarknetID, a string that is neither.
\* Amounts: a whole number, a fraction, a fraction with more digits than the
\* token has decimals, a negative number.  The fee: left out, a number, no
\* number.
TransferParams ==
  [privateKey : {<<"a", "1", "f">>, <<"0", "x", "k", "1">>},
   from : {<<"1", "F">>, <<"v", "!">>} \cup StarkNames,
   to : {<<"1", "F">>, <<"v", "!">>} \cup StarkNames,
   amount : {<<"1">>, <<"0", ".", "5">>, <<"0", ".", "0", "0", "0", "1">>,
             <<"-", "1">>},
   maxFee : {Undefined, <<"5">>, <<"x">>}]

\* A request for the tool transfer_starknet_eth, served by transferETH of
\* transfer.ts.
TransferStarknetEth ==
  /\ op = "idle"
  /\ \E params \in TransferParams, network \in {Undefined, GoerliName},
        world \in Worlds :
       /\ Built(constructed, "StarknetIdNavigator", MainnetName) < MaxConstructed
       /\ \E r \in {transferETH(providerCache, constructed, params, network,
                                world)} :
            /\ op' = "transfer_starknet_eth"
            /\ arg' = params @@ [network |-> network, world |-> Met(world, r)]
            /\ res' = TransferResult("Error transferring ETH: ", r)
            /\ chain' = NoChain
            /\ providerCache' = r.providerCache
            /\ constructed' = r.constructed
            /\ UNCHANGED <<navigatorCache, tasks>>

\* A request for the tool transfer_starknet_token, served by transferERC20 of
\* transfer.ts.
TransferStarknetToken ==
  /\ op = "idle"
  /\ \E params \in TransferParams, tokenAddress \in {<<"1", "F">>} \cup StarkNames,
        world \in Worlds :
       /\ Built(constructed, "StarknetIdNavigator", MainnetName) < MaxConstructed
       /\ \E r \in {transferERC20(providerCache, constructed,
                                  params @@ [tokenAddress |-> tokenAddress],
                                  Undefined, world)} :
            /\ op' = "transfer_starknet_token"
            /\ arg' = params @@ [tokenAddress |-> tokenAddress,
                                 network |-> Undefined, world |-> Met(world, r)]
            /\ res' = TransferResult("Error transferring tokens: ", r)
            /\ chain' = NoChain
            /\ providerCache' = r.providerCache
            /\ constructed' = r.constructed
            /\ UNCHANGED <<navigatorCache, tasks>>

\* A request for the tool execute_starknet_contract, served by executeContract
\* of transfer.ts.
ExecuteStarknetContract ==
  /\ op = "idle"
  /\ \E params \in {p \in TransferParams : p.amount = <<"1">>},
        network \in {Undefined, GoerliName}, world \in Worlds :
       /\ Built(constructed, "StarknetIdNavigator", MainnetName) < MaxConstructed
       /\ \E r \in {executeContract(providerCache, constructed,
                                    [privateKey |-> params.privateKey,
                                     accountAddress |-> params.from,
                                     contractAddress |-> params.to,
                                     entrypoint |-> "approve",
                                     maxFee |-> params.maxFee],
                                    network, world)} :
            /\ op' = "execute_starknet_contract"
            /\ arg' = params @@ [network |-> network, world |-> Met(world, r)]
            /\ res' = TransferResult("Error executing contract: ", r)
            /\ chain' = NoChain
            /\ providerCache' = r.providerCache
            /\ constructed' = r.constructed
            /\ UNCHANGED <<navigatorCache, tasks>>

\* transferETH of the earlier copy, called by a tool handler of the same shape.
TransferETHEarlier ==
  /\ op = "idle"
  /\ \E params \in TransferParams, network \in {Undefined, GoerliName},
        world \in Worlds :
       /\ Built(constructed, "StarknetIdNavigator", MainnetName) < MaxConstructed
       /\ \E r \in {transferETH_part007(providerCache, constructed, params,
                                        network, world)} :
            /\ op' = "transferETH_part007"
            /\ arg' = params @@ [network |-> network, world |-> Met(world, r)]
            /\ res' = TransferResult("Error transferring ETH: ", r)
            /\ chain' = NoChain
            /\ providerCache' = r.providerCache
            /\ constructed' = r.constructed
            /\ UNCHANGED <<navigatorCache, tasks>>

NextTransfers ==
  \/ TransferStarknetEth
  \/ TransferStarknetToken
  \/ ExecuteStarknetContract
  \/ TransferETHEarlier
  \/ Return

SpecTransfers == Init /\ [][NextTransfers]_vars

(***************************************************************************)
(* Transaction requests.  A wait for a transaction gives way at each       *)
(* await: while the request is with the node, and while it sleeps.         *)
(***************************************************************************)
\* What the node answers to a receipt request: receipts that are accepted,
\* reverted with and without a reason, not yet executed, and errors.
ReceiptAnswers ==
  {Receipt("ACCEPTED_ON_L2", "SUCCEEDED", Undefined),
   Receipt("ACCEPTED_ON_L1", "SUCCEEDED", Undefined),
   Receipt("ACCEPTED_ON_L2", "REVERTED", <<"Out of gas">>),
   Receipt("ACCEPTED_ON_L2", "REVERTED", Undefined),
   Receipt("ACCEPTED_ON_L2", "REVERTED",
           <<"Error in the called contract: ", "Transaction hash not found">>),
   Receipt("RECEIVED", "undefined", Undefined),
   NodeError(<<"RPC: starknet_getTransactionReceipt 29: ",
               "Transaction hash not found">>),
   NodeError(<<"fetch failed">>)}

\* Transaction hashes as a caller gives them.
TxHashes == {<<"1", "F">>, <<"v", "!">>}

\* A request for the tool check_starknet_transaction_status, served by
\* isTransactionConfirmed of transactions.ts.
CheckStarknetTransactionStatus ==
  /\ op = "idle"
  /\ \E txHash \in TxHashes, network \in {Undefined, GoerliName},
        answer \in ReceiptAnswers :
       \E r \in {isTransactionConfirmed(providerCache, constructed, txHash,
                                        network, answer)} :
         /\ op' = "check_starknet_transaction_status"
         /\ arg' = [txHash |-> txHash, network |-> network,
                    answer |-> IF r.asked THEN answer ELSE NoReceipt]
         /\ res' = check_starknet_transaction_status(txHash, r)
                     @@ [ok |-> r.ok, value |-> r.value]
         /\ chain' = NoChain
         /\ providerCache' = r.providerCache
         /\ constructed' = r.constructed
         /\ UNCHANGED <<navigatorCache, tasks>>

\* A call of isTransactionConfirmed of one of the earlier copies.
IsTransactionConfirmedEarlier ==
  /\ op = "idle"
  /\ \E txHash \in TxHashes, network \in {Undefined, GoerliName},
        answer \in ReceiptAnswers, part \in {"part_002", "part_003"} :
       \E r \in {IF part = "part_002"
                 THEN isTransactionConfirmed_part002(providerCache, constructed,
                                                     txHash, network, answer)
                 ELSE isTransactionConfirmed_part003(providerCache, constructed,
                                                     txHash, network, answer)} :
         /\ op' = "isTransactionConfirmed_" \o part
         /\ arg' = [txHash |-> txHash, network |-> network,
                    answer |-> IF r.asked THEN answer ELSE NoReceipt]
         /\ res' = [ok |-> r.ok, value |-> r.value, err |-> r.err]
         /\ chain' = NoChain
         /\ providerCache' = r.providerCache
         /\ constructed' = r.constructed
         /\ UNCHANGED <<navigatorCache, tasks>>

\* The options of a wait: left out, zero, above the intervals, a timeout
\* shorter than a request with an interval below 1, and a negative timeout.
WaitOptions ==
  {[timeout |-> Undefined, interval |-> Undefined],
   [timeout |-> Num(0), interval |-> Num(0)],
   [timeout |-> Num(2500), interval |-> Num(1500)],
   [timeout |-> Num(3), interval |-> Num(0 - 5)],
   [timeout |-> Num(0 - 1), interval |-> Undefined]}

\* How long the node takes to answer, in ms.
AnswerTimes == {0, 500}

\* A call of waitForTransaction, up to its first await.
WaitForTransaction ==
  /\ op = "idle"
  /\ \E txHash \in TxHashes, options \in WaitOptions,
        network \in {Undefined, GoerliName} :
       \E wait \in {waitForTransaction(providerCache, constructed, txHash,
                                       options, network)} :
         /\ op' = "waitForTransaction"
         /\ arg' = [txHash |-> txHash, options |-> options, network |-> network]
         /\ res' = wait
         /\ chain' = NoChain
         /\ providerCache' = wait.providerCache
         /\ constructed' = wait.constructed
         /\ UNCHANGED <<navigatorCache, tasks>>

\* The node answers the receipt request of a wait.
ReceiptAnswered ==
  /\ op = "waitForTransaction"
  /\ res.pc = "request"
  /\ \E answer \in ReceiptAnswers, took \in AnswerTimes :
       res' = receiptAnswered(res, answer, took)
  /\ UNCHANGED <<op, arg, chain, handleVars>>

\* The sleep of a wait is over.
SleepOver ==
  /\ op = "waitForTransaction"
  /\ res.pc = "sleep"
  /\ res' = sleepOver(res)
  /\ UNCHANGED <<op, arg, chain, handleVars>>

\* The caller has the result of a request; of a wait, once it has ended.
ReturnTransactions ==
  /\ op = "waitForTransaction" => res.pc \in {"returned", "thrown"}
  /\ Return

NextTransactions ==
  \/ CheckStarknetTransactionStatus
  \/ IsTransactionConfirmedEarlier
  \/ WaitForTransaction
  \/ ReceiptAnswered
  \/ SleepOver
  \/ ReturnTransactions

SpecTransactions == Init /\ [][NextTransactions]_vars

\* The waits alone.
NextWaits ==
  \/ WaitForTransaction
  \/ ReceiptAnswered
  \/ SleepOver
  \/ ReturnTransactions

\* Where a wait stands.
waitPc == IF op = "waitForTransaction" THEN res.pc ELSE "none"

\* Each request to the node is answered and each sleep ends; both steps move
\* the wait on.
SpecWaitsFair ==
  /\ Init /\ [][NextWaits]_vars
  /\ WF_waitPc(ReceiptAnswered) /\ WF_waitPc(SleepOver)

(***************************************************************************)
(* The caches of handles under calls with any network name.                *)
(***************************************************************************)
\* A call of getProvider.
GetProvider ==
  /\ op = "idle"
  /\ \E network \in NetworkNames :
       \E r \in {getProvider(providerCache, constructed, network)} :
         /\ op' = "getProvider"
         /\ arg' = [network |-> network]
         /\ res' = [ok |-> r.ok, value |-> r.value, err |-> r.err]
         /\ chain' = NoChain
         /\ providerCache' = r.providerCache
         /\ constructed' = r.constructed
         /\ UNCHANGED <<navigatorCache, tasks>>

\* A call of getStarknetIdNavigator.
GetStarknetIdNavigator ==
  /\ op = "idle"
  /\ \E network \in NetworkNames :
       \E r \in {getStarknetIdNavigator(providerCache, navigatorCache,
                                        constructed, network)} :
         /\ op' = "getStarknetIdNavigator"
         /\ arg' = [network |-> network]
         /\ res' = [ok |-> r.ok, value |-> r.value, err |-> r.err]
         /\ chain' = NoChain
         /\ providerCache' = r.providerCache
         /\ navigatorCache' = r.navigatorCache
         /\ constructed' = r.constructed
         /\ UNCHANGED tasks

NextCaches ==
  \/ GetProvider
  \/ GetStarknetIdNavigator
  \/ Return

SpecCaches == Init /\ [][NextCaches]_vars

(***************************************************************************)
(* Properties.                                                             *)
(***************************************************************************)
\* The value a word string denotes.
WordValue(w) == BigIntOfString(w).value

InDoubleWord(value) == value >= 0 /\ value < DoubleModulus

\* C1: for every v with 0 <= v < 2^256, combineUint256 applied to the low and
\* high parts returned by splitUint256(v) returns v.
C1_RoundTripSplitCombine ==
  (op = "combineUint256" /\ chain.from = "splitUint256" /\ InDoubleWord(chain.value))
    => (res.ok /\ res.value = chain.value)

\* C1 witness: the round trip has run on a value with both words non-zero.
C1_Witness ==
  /\ op = "combineUint256"
  /\ chain.from = "splitUint256"
  /\ chain.value = DoubleModulus - 1
  /\ arg.low = HexString(WordModulus - 1)
  /\ arg.high = HexString(WordModulus - 1)
  /\ res.ok

\* C2: every pair returned by splitUint256 or bigintToUint256 has
\* low = value mod 2^128 and high = value div 2^128, so that
\* value = low + high * 2^128 with both words in 0 .. 2^128 - 1.
C2_SplitWordsExact ==
  (op \in {"splitUint256", "bigintToUint256"} /\ res.ok)
    => /\ BigIntOfString(res.low).ok
       /\ BigIntOfString(res.high).ok
       /\ WordValue(res.low) = arg.value % WordModulus
       /\ WordValue(res.high) = arg.value \div WordModulus
       /\ arg.value = WordValue(res.low) + WordValue(res.high) * WordModulus
       /\ WordValue(res.low) \in 0..(WordModulus - 1)
       /\ WordValue(res.high) \in 0..(WordModulus - 1)

\* C3: splitUint256 fails for every value that is negative or >= 2^256 and
\* returns no low/high pair for it.
C3_SplitRejectsOutOfRange ==
  (op = "splitUint256" /\ ~InDoubleWord(arg.value)) => ~res.ok

\* C4: whenever combineUint256 or uint256ToBigint returns a value for two
\* integer words, the value is (low mod 2^128) + (high mod 2^128) * 2^128 and
\* below 2^256: an out-of-range word is rejected or masked, on the library
\* path and on the manual path alike.
C4_CombineOnePolicy ==
  (/\ op \in {"combineUint256", "uint256ToBigint"}
   /\ BigIntOfString(arg.low).ok
   /\ BigIntOfString(arg.high).ok
   /\ res.ok)
    => /\ res.value = (WordValue(arg.low) % WordModulus)
                        + (WordValue(arg.high) % WordModulus) * WordModulus
       /\ res.value < DoubleModulus

FormatOps == {"formatAmount", "formatTokenAmount", "formatAmount_getTokenBalance"}

\* A decimal numeral without superfluous leading zeros.
IsNumeral(s) == s # <<>> /\ AllDec(s) /\ (Len(s) > 1 => s[1] # "0")

\* C5: for a non-negative raw amount, the formatters return the plain numeral of
\* raw when decimals = 0, and otherwise I.F where F is exactly the last
\* `decimals` digits of raw (zero-padded on the left) and I is the numeral of the
\* digits before them, "0" when there are none; the three copies agree.
C5_FormatAmountFixedPoint ==
  (op \in FormatOps) =>
    LET r == res.value
        d == arg.decimals
        I == SubSeq(r, 1, Len(r) - d - 1)
        F == SubSeq(r, Len(r) - d + 1, Len(r))
    IN /\ IF d = 0
          THEN IsNumeral(r) /\ DigitsValue(r, 10) = arg.amount
          ELSE /\ Len(r) >= d + 2
               /\ r[Len(r) - d] = "."
               /\ IsNumeral(I)
               /\ Len(F) = d
               /\ AllDec(F)
               /\ DigitsValue(I, 10) = arg.amount \div (10 ^ d)
               /\ DigitsValue(F, 10) = arg.amount % (10 ^ d)
       /\ formatAmount(arg.amount, d) = r
       /\ formatTokenAmount(arg.amount, d) = r
       /\ formatAmount_getTokenBalance(arg.amount, d) = r

\* C5 witness: formatAmount(5, 3) has returned "0.005".
C5_Witness ==
  /\ op = "formatAmount"
  /\ arg.amount = 5
  /\ arg.decimals = 3
  /\ res.value = <<"0", ".", "0", "0", "5">>

\* C6: parseTokenAmount(formatAmount(v, d), d) = v for every non-negative v and
\* every decimal count d.
C6_RoundTripFormatParse ==
  (op = "parseTokenAmount" /\ chain.from = "formatAmount")
    => (res.ok /\ res.value = chain.amount)

\* C6 witness: "1.23", formatted from 123 with 2 decimals, was parsed back.
C6_Witness ==
  /\ op = "parseTokenAmount"
  /\ chain.from = "formatAmount"
  /\ chain.amount = 123
  /\ arg.decimals = 2
  /\ arg.amount = <<"1", ".", "2", "3">>
  /\ res.ok

\* The number of characters between the first decimal point of s and the next
\* one (or the end of s).
FractionLength(s) ==
  LET i == CHOOSE k \in 1..Len(s) : s[k] = "." /\ \A j \in 1..(k - 1) : s[j] # "."
  IN Cardinality({k \in (i + 1)..Len(s) : \A j \in (i + 1)..k : s[j] # "."})

\* C7: a string amount whose fractional part is longer than `decimals` is
\* rejected with the too-many-decimal-places error, which carries `decimals` as
\* the maximum allowed; no value is returned for it.
C7_TooManyFractionalDigits ==
  (/\ op = "parseTokenAmount"
   /\ arg.kind = "string"
   /\ Includes(arg.amount, ".")
   /\ FractionLength(arg.amount) > arg.decimals)
    => (~res.ok /\ res.err = "TooManyDecimalPlaces" /\ res.max = arg.decimals)

\* C7 witness: "1.77" with one decimal was rejected.
C7_Witness ==
  /\ op = "parseTokenAmount"
  /\ arg.kind = "string"
  /\ arg.amount = <<"1", ".", "7", "7">>
  /\ arg.decimals = 1
  /\ ~res.ok
  /\ res.err = "TooManyDecimalPlaces"

\* C8: every string amount that parseTokenAmount accepts is a plain decimal
\* (digits, at most one decimal point, no sign), and the result is its value
\* times 10^decimals: integer * 10^decimals without a point, and
\* integerPart * 10^decimals + fractionalPart * 10^(decimals - len) with one;
\* so the result is never negative and no group of the input is dropped.
C8_ParseExactValue ==
  (op = "parseTokenAmount" /\ arg.kind = "string" /\ res.ok) =>
    LET s == arg.amount
        d == arg.decimals
        n == Cardinality({k \in 1..Len(s) : s[k] = "."})
        i == CHOOSE k \in 1..Len(s) : s[k] = "."
        I == SubSeq(s, 1, i - 1)
        F == SubSeq(s, i + 1, Len(s))
    IN /\ res.value >= 0
       /\ n <= 1
       /\ n = 0 => (AllDec(s) /\ res.value = DigitsValue(s, 10) * (10 ^ d))
       /\ n = 1 => /\ AllDec(I)
                   /\ AllDec(F)
                   /\ Len(F) <= d
                   /\ res.value = DigitsValue(I, 10) * (10 ^ d)
                                    + DigitsValue(F, 10) * (10 ^ (d - Len(F)))

HasHexPrefix(s) == Len(s) >= 2 /\ s[1] = "0" /\ s[2] \in {"x", "X"}

\* The address with the prefix added when it has none.
PrefixedForm(s) == IF HasHexPrefix(s) THEN s ELSE <<"0", "x">> \o s

\* A prefixed address is valid when its digits are hex, at least one, and their
\* value lies below the address bound (so it fits the field width).
ValidPrefixed(p) ==
  LET digits == SubSeq(p, 3, Len(p))
  IN digits # <<>> /\ AllHex(digits) /\ DigitsValue(digits, 16) < AddrBound

\* The canonical form: 0x and exactly AddrHexLen lower-case hex digits.
IsCanonicalAddress(a) ==
  /\ Len(a) = AddrHexLen + 2
  /\ a[1] = "0"
  /\ a[2] = "x"
  /\ \A k \in 3..Len(a) : \E j \in 1..16 : HexDigits[j] = a[k]

\* C9: parseStarknetAddress applied to an address it returned succeeds and
\* returns that address again.
C9_ParseAddressIdempotent ==
  (op = "parseStarknetAddress" /\ chain.from = "parseStarknetAddress")
    => (res.ok /\ res.value = chain.prev.value /\ res.value = arg.address)

\* C9 witness: "1F" was parsed to "0x01f", and that was parsed again.
C9_Witness ==
  /\ op = "parseStarknetAddress"
  /\ chain.from = "parseStarknetAddress"
  /\ chain.input = <<"1", "F">>
  /\ arg.address = <<"0", "x", "0", "1", "f">>
  /\ res.ok

\* C10: parseStarknetAddress succeeds exactly when the address, with the prefix
\* added if it has none, is valid hex below the address bound, and then returns
\* the canonical address of that value; h and "0x" + h give the same outcome;
\* every failure is the invalid-address error, reached after at most one retry,
\* and a retry happens only for an input that does not start with 0x.
C10_ParseAddressPrefix ==
  (op = "parseStarknetAddress") =>
    LET p == PrefixedForm(arg.address)
    IN /\ res.ok <=> ValidPrefixed(p)
       /\ res.ok => /\ IsCanonicalAddress(res.value)
                    /\ DigitsValue(SubSeq(res.value, 3, Len(res.value)), 16)
                         = DigitsValue(SubSeq(p, 3, Len(p)), 16)
       /\ ~res.ok => res.err = "InvalidStarknetAddress"
       /\ res.retries <= 1
       /\ res.retries = 1 => ~StartsWith(arg.address, <<"0", "x">>)
       /\ (chain.from = "prefix" /\ ~HasHexPrefix(chain.input))
            => (res.ok = chain.prev.ok /\ res.value = chain.prev.value
                /\ res.err = chain.prev.err)

\* C10 witness: "1F" and then "0x1F" were parsed, both to "0x01f".
C10_Witness ==
  /\ op = "parseStarknetAddress"
  /\ chain.from = "prefix"
  /\ chain.input = <<"1", "F">>
  /\ arg.address = <<"0", "x", "1", "F">>
  /\ chain.prev.ok
  /\ res.ok
  /\ res.value = <<"0", "x", "0", "1", "f">>

\* C11: every address resolveNameOrAddress returns is in canonical form; for an
\* identifier that is a valid address it is parseStarknetAddress(identifier).
C11_ResolveReturnsCanonical ==
  (op = "resolveNameOrAddress" /\ res.ok)
    => /\ IsCanonicalAddress(res.value)
       /\ isValidAddress(arg.nameOrAddress)
            => res.value = parseStarknetAddress(arg.nameOrAddress).value

\* C12: isValidAddress(x) is true exactly when parseStarknetAddress(x)
\* succeeds; "vitalik" and "vitalik.stark" are no addresses and an address in
\* full is one.
C12_ClassifyAgreesWithParse ==
  (op = "isValidAddress")
    => /\ res.value = parseStarknetAddress(arg.address).ok
       /\ arg.address \in {<<"v", "i", "t", "a", "l", "i", "k">>, <<"v", "i", "t", "a", "l", "i", "k", ".", "s", "t", "a", "r", "k">>}
            => ~res.value
       /\ IsCanonicalAddress(arg.address) => res.value

\* An address without the prefix was classified as an address, which
\* parseStarknetAddress takes as well.
C12_Witness ==
  /\ op = "isValidAddress"
  /\ res.value
  /\ ~HasHexPrefix(arg.address)
  /\ parseStarknetAddress(arg.address).ok

\* The directory answered with nothing or with zero in some spelling.
IsZeroAnswer(directory) ==
  /\ directory # NotAsked
  /\ ~directory.threw
  /\ BigIntOfString(directory.address).ok
  /\ BigIntOfString(directory.address).value = 0

\* The error says that the name could not be resolved.
IsUnresolvableError(err) ==
  \E i \in 1..Len(err.message) :
    err.message[i] = Lit("Could not resolve Starknet ID: ")

\* C13: when the directory answers a name with nothing or with zero in any
\* spelling, resolveNameOrAddress fails with the unresolvable-name error.
C13_ZeroAnswerIsUnresolvable ==
  (op = "resolveNameOrAddress" /\ IsZeroAnswer(arg.directory))
    => (~res.ok /\ IsUnresolvableError(res.err))

\* The kind of an error: its class and the fixed parts of its message.
ErrorKind(err) == <<err.name, SelectSeq(err.message, LAMBDA part : part.fixed)>>

\* The identifier is a name: no address, and well formed as a name.
IsWellFormedName(x) == ~isValidAddress(x) /\ isValidStarknetDomain_earlier(x)

\* The identifier is neither a valid address nor a well-formed name.
IsMalformed(x) == ~isValidAddress(x) /\ ~isValidStarknetDomain_earlier(x)

SupportedNetworkArgs == {Undefined, MainnetName, SepoliaName}

\* C14: on a supported network, the error of a failed resolveNameOrAddress for
\* a malformed identifier and the error of a failed one for a well-formed name
\* are of different kinds.
C14_MalformedAndNotFoundDiffer ==
  (/\ op = "resolveNameOrAddress" /\ chain.from = "resolveNameOrAddress"
   /\ ~res.ok
   /\ arg.network \in SupportedNetworkArgs
   /\ IsMalformed(chain.nameOrAddress)
   /\ IsWellFormedName(arg.nameOrAddress))
    => ErrorKind(chain.err) # ErrorKind(res.err)

\* The network a call is for.
NetworkOf(a) == OrDefault(a.network, MainnetName)

\* C15: the StarknetIdNavigator of a network is built at most once, and every
\* resolve or lookup that used a navigator used the cached one of its network.
C15_NavigatorBuiltOncePerNetwork ==
  /\ \A k \in DOMAIN constructed :
       k[1] = "StarknetIdNavigator" => constructed[k] <= 1
  /\ (op \in {"resolveNameOrAddress", "getAddressFromStarkName"}
      /\ res.navigator # NoHandle)
       => /\ NetworkOf(arg) \in DOMAIN navigatorCache
          /\ res.navigator = navigatorCache[NetworkOf(arg)]

\* A provider that is whole: built for its key from the URL and chain id of a
\* supported network.
IsWholeProvider(h) ==
  /\ h.class = "RpcProvider"
  /\ \E n \in DOMAIN networks :
       /\ toLowerCase(h.key) = n
       /\ h.fields.nodeUrl = networks[n].rpcUrl

\* A navigator that is whole: built on a whole provider of the same key.
IsWholeNavigator(h) ==
  /\ h.class = "StarknetIdNavigator"
  /\ IsWholeProvider(h.fields.provider)
  /\ h.fields.provider.key = h.key

InFlight(t) == tasks[t].pc # "idle" /\ tasks[t].received

\* C16: whatever operations are in flight together, each one that got a handle
\* from getProvider or getStarknetIdNavigator got a whole handle for its
\* network, and no handle was built more than twice for one network.
C16_HandleAlwaysWhole ==
  /\ \A t \in Tasks :
       InFlight(t)
         => /\ tasks[t].handle # NoHandle
            /\ tasks[t].handle.key = OrDefault(tasks[t].network, MainnetName)
            /\ tasks[t].op = "getTransaction" => IsWholeProvider(tasks[t].handle)
            /\ tasks[t].op = "getStarkName" => IsWholeNavigator(tasks[t].handle)
  /\ \A k \in DOMAIN constructed : constructed[k] <= 2

\* Two operations are waiting together with the navigator of one network, which
\* the first of them built.
C16_Witness ==
  /\ \A t \in Tasks :
       /\ tasks[t].pc = "awaiting"
       /\ tasks[t].op = "getStarkName"
       /\ tasks[t].handle.key = SepoliaName
       /\ IsWholeNavigator(tasks[t].handle)
  /\ Built(constructed, "StarknetIdNavigator", SepoliaName) = 1

\* The unknown-network error, with the supported names in it.
IsUnknownNetworkError(err, name) ==
  err = NewError(<<Lit("Network "), Val(name),
                   Lit(" not supported. Available networks: "),
                   Val(MainnetName \o <<",", " ">> \o SepoliaName)>>)

\* C17: getNetwork returns the entry of the table for the name in any letter
\* case, the mainnet entry for a name left out, and fails with the error that
\* lists the supported names for every name that matches no entry.
C17_GetNetworkLookup ==
  (op = "getNetwork")
    => LET name == OrDefault(arg.networkName, MainnetName)
       IN /\ arg.networkName = Undefined
               => (res.ok /\ res.value = networks[MainnetName])
          /\ toLowerCase(name) \in {MainnetName, SepoliaName}
               => (res.ok /\ res.value = networks[toLowerCase(name)]
                   /\ res.value = getNetwork(toLowerCase(name)).value)
          /\ toLowerCase(name) \notin {MainnetName, SepoliaName}
               => (~res.ok /\ IsUnknownNetworkError(res.err, name))

\* The candidate with one .stark at its end removed.
BaseOf(candidate) ==
  IF EndsWith(candidate, StarkSuffix)
  THEN SubSeq(candidate, 1, Len(candidate) - Len(StarkSuffix))
  ELSE candidate

\* C18: isValidStarknetDomain(candidate) is true exactly when the base of the
\* candidate is 1 to 31 characters of a-z, 0-9 and '-'.
C18_DomainValidity ==
  (op = "isValidStarknetDomain")
    => (res.value <=> (/\ Len(BaseOf(arg.domain)) \in 1..31
                       /\ \A i \in 1..Len(BaseOf(arg.domain)) :
                            IsDomainChar(BaseOf(arg.domain)[i])))

\* C19: when a catch block ran in formatContractValue, in feltToString, in a
\* read of a balance or in a lookup of the directory, the call ends with an
\* error and not with a value put in its place.
C19_NoFailureSwallowed ==
  (op \in {"formatContractValue", "getTokenBalance", "getAddressFromStarkName"}
   /\ res.caught)
    => ~res.ok

\* The tools whose handlers are followed.
ToolOps == {"get_starknet_eth_balance", "validate_starknet_domain"}

\* C20: no error is fatal to the process: a failure raised while a tool serves
\* a request is caught by the handler and returned as a result with isError
\* true and an error text, the handler never throws, and the process goes on
\* to serve later requests.
C20_NoErrorIsFatal ==
  /\ op # "exit"
  /\ op \in ToolOps
       => /\ ~res.threw
          /\ res.isError
               => /\ Len(res.text) >= 2
                  /\ Head(res.text) = Lit("Error: ")


\* The tools that submit a transaction.
TransferToolOps ==
  {"transfer_starknet_eth", "transfer_starknet_token", "execute_starknet_contract"}

\* The step of a request that uses an address parameter as an address.
ParseStepOf(parameter) ==
  CASE parameter = "from" -> "parseFrom"
    [] parameter = "to" -> "parseTo"
    [] parameter = "tokenAddress" -> "parseToken"

\* The request ended with an error thrown by a step.
FailedAt(step) == res.isError /\ res.steps[Len(res.steps)] = step

\* C21: every tool parameter that denotes an address (sender, recipient, token
\* or contract address) also takes a StarknetID: a name given there is
\* resolved before the value is used as an address, so the request never ends
\* with that name rejected as an invalid address.
C21_AddressParametersTakeNames ==
  op \in TransferToolOps
    => \A parameter \in {"from", "to", "tokenAddress"} \cap DOMAIN arg :
         isStarkDomain(arg[parameter]) => ~FailedAt(ParseStepOf(parameter))


\* All requests that sign with a private key.
SigningOps == TransferToolOps \cup {"transferETH_part007"}

\* A text has the key in one of its variable parts.
Mentions(text, key) ==
  \E i \in 1..Len(text) :
    /\ ~text[i].fixed
    /\ \E k \in 1..(Len(text[i].text) - Len(key) + 1) :
         SubSeq(text[i].text, k, k + Len(key) - 1) = key

\* C22: a private key is used only to sign the transaction it was supplied
\* for and is never stored: the caches hold providers and navigators only,
\* and no tool result or error text contains the private key.
C22_PrivateKeyNotKept ==
  op \in SigningOps
    => /\ ~Mentions(res.text, arg.privateKey)
       /\ \A i \in 1..Len(res.submitted) :
            res.submitted[i].signer \in {arg.privateKey,
                                         <<"0", "x">> \o arg.privateKey}
       /\ \A k \in DOMAIN providerCache :
            /\ providerCache[k].class = "RpcProvider"
            /\ DOMAIN providerCache[k].fields = {"nodeUrl", "chainId"}
       /\ navigatorCache = <<>>

ConfirmationOps ==
  {"check_starknet_transaction_status", "isTransactionConfirmed_part_002",
   "isTransactionConfirmed_part_003"}

Accepted(receipt) == receipt.finality_status \in {"ACCEPTED_ON_L2", "ACCEPTED_ON_L1"}

\* C23: isTransactionConfirmed returns true exactly when the receipt of the
\* transaction has the finality status ACCEPTED_ON_L2 or ACCEPTED_ON_L1 and
\* false for every other receipt, and check_starknet_transaction_status
\* reports that value as isConfirmed.
C23_ConfirmedIffAccepted ==
  (op \in ConfirmationOps /\ ~arg.answer.threw /\ res.ok)
    => /\ res.value = Accepted(arg.answer)
       /\ op = "check_starknet_transaction_status"
            => /\ ~res.isError
               /\ res.text = <<Lit("txHash"), Val(arg.txHash),
                               Lit("isConfirmed"), Val(Accepted(arg.answer))>>

TransferOps ==
  {"transfer_starknet_eth", "transfer_starknet_token", "transferETH_part007"}

\* Amounts in whole tokens: one token and half a token.
HumanAmounts == {<<"1">>, <<"0", ".", "5">>}

\* C24: the transfer tools take the amount in human-readable units: an amount
\* such as "0.5" is accepted, and a transfer of ETH submits the amount times
\* ten to the decimals of ETH, so that "1" transfers one whole token.
C24_AmountInWholeTokens ==
  (op \in TransferOps /\ arg.amount \in HumanAmounts)
    => /\ ~FailedAt("amount")
       /\ op # "transfer_starknet_token"
            => \A i \in 1..Len(res.submitted) :
                 res.submitted[i].tx.amount
                   = parseTokenAmount(arg.amount, ETH_DECIMALS).value

\* C25: a transfer of ETH invokes the transfer entrypoint of the ETH token
\* contract, never of the recipient's own address, with the resolved
\* recipient and the amount as a low/high pair; a transfer of a token invokes
\* the given token contract.
C25_TransferCallsTokenContract ==
  op \in TransferOps
    => \A i \in 1..Len(res.submitted) :
         LET tx == res.submitted[i].tx
         IN /\ tx.entrypoint = "transfer"
            /\ tx.recipient
                 = parseStarknetAddress(
                     IF isStarkDomain(arg.to) THEN arg.world.directory.address
                     ELSE arg.to).value
            /\ bnToUint256(tx.amount).ok
            /\ tx.contractAddress
                 = IF op = "transfer_starknet_token"
                   THEN parseStarknetAddress(arg.tokenAddress).value
                   ELSE TOKEN_ADDRESSES_ETH

\* The last answer of the node to a wait was a receipt with this status.
LastReceipt(statuses) ==
  ~res.last.threw /\ res.last # NoReceipt /\ res.last.execution_status \in statuses

\* C27: in waitForTransaction a REVERTED receipt ends the wait on that poll
\* with a 'Transaction reverted' error whatever the revert reason is, with no
\* further request; only a pending receipt, or an error of the node whose
\* message contains 'Transaction hash not found', leads to another poll.
C27_RevertedEndsTheWait ==
  op = "waitForTransaction"
    => /\ LastReceipt({"REVERTED"})
            => /\ res.pc = "thrown"
               /\ Head(errorMessage(res.err)) = "Transaction reverted: "
       /\ res.pc = "sleep"
            => \/ LastReceipt({"undefined"})
               \/ /\ res.last.threw
                  /\ IncludesText(TextOf(errorMessage(res.last.error)), HashNotFound)

WaitOver == op = "waitForTransaction" /\ res.pc \in {"returned", "thrown"}

TimedOut ==
  /\ op = "waitForTransaction"
  /\ res.pc = "thrown"
  /\ Head(errorMessage(res.err)) = "Transaction not confirmed within "

\* C26: waitForTransaction always terminates: whatever the node answers, if
\* each request is answered and each sleep ends, the wait eventually returns
\* or throws; what it returns is a receipt with the status SUCCEEDED, and it
\* throws the timeout error only once the elapsed time has reached the
\* timeout.
C26_WaitTerminates ==
  /\ [](op = "waitForTransaction"
          => /\ res.pc = "returned" => res.value.execution_status = "SUCCEEDED"
             /\ TimedOut => res.elapsed >= res.timeoutMs)
  /\ (op = "waitForTransaction") ~> WaitOver

\* A wait that polled, slept and then ended with the timeout error.
C26_Witness == TimedOut /\ res.elapsed > 0 /\ LastReceipt({"undefined"})

\* The step was reached, and every step before `later` that the request
\* reached.
ReachedBefore(step, later) ==
  \E i, j \in 1..Len(res.steps) :
    i < j /\ res.steps[i] = step /\ res.steps[j] = later

\* C28: for every transfer or execute request account.execute is invoked at
\* most once, and only after the sender was parsed, the recipient or contract
\* resolved and the fee estimate returned; if address parsing, name
\* resolution, amount parsing or fee estimation fails, nothing is submitted
\* and the request ends with an error.
C28_ExecuteOnceAfterChecks ==
  op \in SigningOps
    => /\ Len(res.submitted) <= 1
       /\ Cardinality({i \in 1..Len(res.steps) : res.steps[i] = "execute"}) <= 1
       /\ res.submitted # <<>>
            => /\ \A step \in {"parseFrom", "resolve", "parseTo", "estimateFee"} :
                    ReachedBefore(step, "execute")
               /\ parseStarknetAddress(arg.from).ok
               /\ arg.world.estimateFee
       /\ (\/ ~parseStarknetAddress(arg.from).ok
           \/ ~isStarkDomain(arg.to) /\ ~parseStarknetAddress(arg.to).ok
           \/ isStarkDomain(arg.to) /\ arg.world.directory.threw
           \/ op \in TransferOps /\ arg.amount = <<"0", ".", "0", "0", "0", "1">>
           \/ \E step \in {"parseFrom", "resolve", "parseTo", "parseToken",
                            "amount", "estimateFee"} : FailedAt(step))
            => res.isError /\ res.submitted = <<>>

\* A request that resolved a name, estimated the fee and submitted.
C28_Witness ==
  /\ op \in SigningOps
  /\ isStarkDomain(arg.to)
  /\ ~res.isError
  /\ Len(res.submitted) = 1

\* C29: every provider in the cache under a key was built with the RPC
\* endpoint and the chain identifier that the registry of networks holds for
\* that key, matched without regard to case: no cached provider pairs the
\* endpoint of one network with the chain id of another.
C29_CachedProviderMatchesRegistry ==
  \A k \in DOMAIN providerCache :
    /\ toLowerCase(k) \in DOMAIN networks
    /\ providerCache[k].fields.nodeUrl = networks[toLowerCase(k)].rpcUrl
    /\ providerCache[k].fields.chainId = networks[toLowerCase(k)].chainId

\* C30: each cache holds at most one entry for each network of the registry,
\* and a call with a name that is not supported adds no entry.
C30_CachesBoundedByNetworks ==
  /\ Cardinality(DOMAIN providerCache) <= Len(NetworkKeys)
  /\ Cardinality(DOMAIN navigatorCache) <= Len(NetworkKeys)
  /\ \A k \in DOMAIN providerCache \cup DOMAIN navigatorCache :
       toLowerCase(k) \in DOMAIN networks

====
